---------------------------- MODULE Spec2Model ----------------------------
(***************************************************************************)
(* BRIX: the simulation core of a ball-and-paddle game.                    *)
(*                                                                         *)
(* Game (game/game.go) is a state machine driven by one Update call per    *)
(* frame.  Paddle, Ball and Brick (entities) hold the mutable state,       *)
(* CollisionSystem (physics/collision.go) resolves collisions, LoadLevel   *)
(* (levels) reads, auto-fits and validates level files.                    *)
(*                                                                         *)
(* Numbers.  The code computes in float64 with Tick = 1/60 s.  Here every  *)
(* length is an integer count of 1/180 pixel and every velocity an integer *)
(* count of 1/3 pixel per second, so that x += vx * Tick is x' = x + vx    *)
(* and the paddle's accelerations 2500/60 and 2400/60 px/s per tick are    *)
(* the integers 125 and 120.  Level files carry whole pixels (Go ints).    *)
(* Square roots are taken to the velocity unit, rounded toward zero.       *)
(***************************************************************************)
EXTENDS Integers, Sequences, FiniteSets, TLC

\* ----------------------------------------------------------------------
\* Fixed-point scale
\* ----------------------------------------------------------------------

\* length units per pixel: 60 ticks per second times 3 velocity units
PX == 180

\* velocity units per pixel-per-second
VU == 3

\* ----------------------------------------------------------------------
\* Program constants
\* ----------------------------------------------------------------------

PaddleWidth == 120
PaddleHeight == 20
\* px/s^2; per tick and in velocity units: 2500 * (1/60) * 3 = 125
PaddleAccel == 2500
PaddleFriction == 2400
PaddleMaxSpeed == 450
PaddleY == 700
ScreenWidth == 720
BallRadius == 10
HUDHeight == 80
BrickCols == 12
BrickRows == 10

\* The gameplay rectangle.  Its declaration is not among the sources; the
\* renderer draws a 1400x1000 playfield below a 60 pixel HUD, 20 pixels from
\* the left edge of the 1440x1080 screen.
GameAreaLeft == 20
GameAreaTop == 60
GameAreaWidth == 1400
GameAreaHeight == 1000
GameAreaRight == GameAreaLeft + GameAreaWidth
GameAreaBottom == GameAreaTop + GameAreaHeight

\* lives of a new game
StartLives == 3
\* score baseline per level number
LevelBaseline == 1000
\* points for a paddle hit
PaddlePoints == 10
\* fallback speed of a ball at rest, px/s
FallbackSpeed == 240

\* ----------------------------------------------------------------------
\* Arithmetic helpers
\* ----------------------------------------------------------------------

Abs(a) == IF a < 0 THEN -a ELSE a

\* Go's float-to-int conversion and the rounding of a quotient: toward zero
TruncDiv(a, b) == IF a >= 0 THEN a \div b ELSE -((-a) \div b)

Min2(a, b) == IF a < b THEN a ELSE b
Max2(a, b) == IF a > b THEN a ELSE b

RECURSIVE SqrtSearch(_, _, _)
SqrtSearch(n, lo, hi) ==
    IF lo >= hi THEN lo
    ELSE LET mid == (lo + hi + 1) \div 2
         IN  IF mid * mid <= n THEN SqrtSearch(n, mid, hi)
                               ELSE SqrtSearch(n, lo, mid - 1)

\* math.Sqrt on the fixed-point grid: the largest r with r*r <= n
ISqrt(n) == SqrtSearch(n, 0, 46340)

\* math.Hypot
Hypot(a, b) == ISqrt(a * a + b * b)


\* ----------------------------------------------------------------------
\* Input: the keys Update polls in one frame
\* ----------------------------------------------------------------------

\* left: KeyLeft or KeyA; right: KeyRight or KeyD; pause: KeySpace or
\* KeyEnter; mouse: the left mouse button
NoKeys == [left |-> FALSE, right |-> FALSE, pause |-> FALSE, mouse |-> FALSE]

\* the condition of updateWaitingToContinue, updatePaused, updateLevelComplete
AnyInput(k) == k.left \/ k.right \/ k.pause \/ k.mouse

\* the condition of updateStart: Space and Enter are not polled there
StartInput(k) == k.left \/ k.right \/ k.mouse

\* ----------------------------------------------------------------------
\* Paddle
\* ----------------------------------------------------------------------

NewPaddle == [x |-> (ScreenWidth \div 2) * PX, vx |-> 0]

\* an acceleration in px/s^2 as the velocity change of one tick
PerTick(a) == (a * VU) \div 60

\* step 1 of Paddle.Update: the second if overwrites the first
InputAccel(k) ==
    IF k.right THEN PerTick(PaddleAccel)
    ELSE IF k.left THEN -PerTick(PaddleAccel)
    ELSE 0

\* step 2 of Paddle.Update: friction against the velocity, cut at zero
FrictionAccel(vx) ==
    IF vx > 0 THEN
        IF vx - PerTick(PaddleFriction) < 0 THEN -vx ELSE -PerTick(PaddleFriction)
    ELSE IF vx < 0 THEN
        IF vx + PerTick(PaddleFriction) > 0 THEN -vx ELSE PerTick(PaddleFriction)
    ELSE 0

PaddleMinX == (PaddleWidth \div 2) * PX
PaddleMaxX == (ScreenWidth - PaddleWidth \div 2) * PX

\* an Update that does not clamp the velocity to the terminal velocity
PaddleUpdateNoSpeedLimit(p, k) ==
    LET ax0 == InputAccel(k)
        ax  == IF ax0 = 0 THEN FrictionAccel(p.vx) ELSE ax0
        v1  == p.vx + ax
        x1  == p.x + v1
        a   == IF x1 < PaddleMinX THEN [x |-> PaddleMinX, vx |-> 0]
                                  ELSE [x |-> x1, vx |-> v1]
    IN  IF a.x > PaddleMaxX THEN [x |-> PaddleMaxX, vx |-> 0] ELSE a

\* an Update without the stop at the left edge
PaddleUpdateNoLeftStop(p, k) ==
    LET ax0 == InputAccel(k)
        ax  == IF ax0 = 0 THEN FrictionAccel(p.vx) ELSE ax0
        v1  == p.vx + ax
        v2  == IF v1 > PaddleMaxSpeed * VU THEN PaddleMaxSpeed * VU ELSE v1
        v3  == IF v2 < -(PaddleMaxSpeed * VU) THEN -(PaddleMaxSpeed * VU) ELSE v2
    IN  IF p.x + v3 > PaddleMaxX THEN [x |-> PaddleMaxX, vx |-> 0]
        ELSE [x |-> p.x + v3, vx |-> v3]

PaddleUpdate(p, k) ==
    LET ax0 == InputAccel(k)
        ax  == IF ax0 = 0 THEN FrictionAccel(p.vx) ELSE ax0
        v1  == p.vx + ax
        v2  == IF v1 > PaddleMaxSpeed * VU THEN PaddleMaxSpeed * VU ELSE v1
        v3  == IF v2 < -(PaddleMaxSpeed * VU) THEN -(PaddleMaxSpeed * VU) ELSE v2
        x1  == p.x + v3
        a   == IF x1 < PaddleMinX THEN [x |-> PaddleMinX, vx |-> 0]
                                  ELSE [x |-> x1, vx |-> v3]
    IN  IF a.x > PaddleMaxX THEN [x |-> PaddleMaxX, vx |-> 0] ELSE a

\* <<left, top, right, bottom>>
PaddleBounds(p) ==
    << p.x - (PaddleWidth \div 2) * PX, PaddleY * PX,
       p.x + (PaddleWidth \div 2) * PX, (PaddleY + PaddleHeight) * PX >>

\* ----------------------------------------------------------------------
\* Ball
\* ----------------------------------------------------------------------

\* speed in px/s, as the level file gives it
NewBallWithSpeed(speed) ==
    [x |-> (ScreenWidth \div 2) * PX, y |-> (PaddleY - 40) * PX,
     vx |-> speed * VU, vy |-> -(speed * VU), speed |-> speed * VU]

\* the ball of NewBallWithSpeed, centred on the paddle
NewBallAbovePaddle(paddleX, speed) ==
    [NewBallWithSpeed(speed) EXCEPT !.x = paddleX]

BallUpdate(b) == [b EXCEPT !.x = b.x + b.vx, !.y = b.y + b.vy]

BallIsLost(b) == b.y > (ScreenWidth + 100) * PX

BallBounds(b) ==
    << b.x - BallRadius * PX, b.y - BallRadius * PX,
       b.x + BallRadius * PX, b.y + BallRadius * PX >>

ReverseX(b) == [b EXCEPT !.vx = -b.vx]
ReverseY(b) == [b EXCEPT !.vy = -b.vy]

\* ----------------------------------------------------------------------
\* Brick
\* ----------------------------------------------------------------------

NewBrickFromLevelWithBounds(lb, width, height, spacingX, spacingY, fieldMinX, fieldMaxX) ==
    [x |-> lb.X, y |-> lb.Y, pixelX |-> 0, pixelY |-> 0, usePixelPosition |-> FALSE,
     hits |-> lb.Hits, active |-> TRUE,
     width |-> width, height |-> height, spacingX |-> spacingX, spacingY |-> spacingY,
     fieldMinX |-> fieldMinX, fieldMaxX |-> fieldMaxX]

\* a Hit without the test for an inactive brick
BrickAfterHitUnguarded(b) ==
    IF b.hits - 1 <= 0 THEN [b EXCEPT !.hits = b.hits - 1, !.active = FALSE]
    ELSE [b EXCEPT !.hits = b.hits - 1]

\* Brick.Hit: the brick afterwards
BrickAfterHit(b) ==
    IF ~b.active THEN b
    ELSE IF b.hits - 1 <= 0 THEN [b EXCEPT !.hits = b.hits - 1, !.active = FALSE]
    ELSE [b EXCEPT !.hits = b.hits - 1]

\* Brick.Hit: its return value, destroyed
BrickHitDestroys(b) == b.active /\ b.hits - 1 <= 0

\* <<screenX, screenY>> in length units
GetScreenPosition(b) ==
    IF b.usePixelPosition
    THEN << GameAreaLeft * PX + b.pixelX, GameAreaTop * PX + b.pixelY >>
    ELSE LET c0 == b.fieldMaxX - b.fieldMinX + 1
             cols == IF c0 <= 0 THEN 1 ELSE c0
             fieldWidthPx == cols * b.width + (cols - 1) * b.spacingX
             offsetX == ((GameAreaWidth - fieldWidthPx) * PX) \div 2
             dx == b.x - b.fieldMinX
         IN  << GameAreaLeft * PX + offsetX + dx * (b.width + b.spacingX) * PX,
                GameAreaTop * PX + b.y * (b.height + b.spacingY) * PX >>

BrickBounds(b) ==
    LET p == GetScreenPosition(b)
    IN  << p[1], p[2], p[1] + b.width * PX, p[2] + b.height * PX >>

\* ----------------------------------------------------------------------
\* CollisionSystem
\* ----------------------------------------------------------------------

\* the rectangle test of CheckPaddleCollision and CheckBrickCollisions on
\* two <<left, top, right, bottom>> boxes; touching edges overlap
Overlaps(a, b) ==
    a[3] >= b[1] /\ a[1] <= b[3] /\ a[4] >= b[2] /\ a[2] <= b[4]

\* a paddle test without the early return for a ball moving up
PaddleHitAnyDirection(ball, paddle) ==
    Overlaps(BallBounds(ball), PaddleBounds(paddle))

\* whether CheckPaddleCollision bounces the ball
PaddleHit(ball, paddle) ==
    ball.vy > 0 /\ Overlaps(BallBounds(ball), PaddleBounds(paddle))

\* the clamped offset of the ball on the paddle, as the numerator of
\* offset = num / (PaddleWidth / 2)
BounceOffset(d) ==
    IF d < -((PaddleWidth \div 2) * PX) THEN -((PaddleWidth \div 2) * PX)
    ELSE IF d > (PaddleWidth \div 2) * PX THEN (PaddleWidth \div 2) * PX
    ELSE d

\* speed := math.Hypot(vx, vy), 240 when that is zero
BounceSpeed(s0) == IF s0 = 0 THEN FallbackSpeed * VU ELSE s0

\* <<newVX, newVY>> from the capped horizontal part newVX and the vertical
\* part left by it, verticalFromHorizontal
BounceVelocity(speed, newVX, verticalFromHorizontal) ==
    IF 2 * verticalFromHorizontal < speed
    THEN << (IF newVX < 0 THEN -1 ELSE 1)
               * ISqrt(speed * speed - (speed \div 2) * (speed \div 2)),
            -(speed \div 2) >>
    ELSE << newVX, -verticalFromHorizontal >>

\* newVX := offset * (speed * 0.75), then the vertical part
BounceHorizontal(speed, newVX) ==
    BounceVelocity(speed, newVX, ISqrt(speed * speed - newVX * newVX))

\* a bounce whose horizontal part may take the whole speed
BounceFromUncapped(num, speed) ==
    BounceHorizontal(speed, TruncDiv(num * speed, (PaddleWidth \div 2) * PX))

BounceFrom(num, speed) ==
    BounceHorizontal(speed, TruncDiv(num * speed * 3, (PaddleWidth \div 2) * PX * 4))

\* the velocity CheckPaddleCollision sets on an overlap, as <<newVX, newVY>>
PaddleBounce(ball, paddle) ==
    BounceFrom(BounceOffset(ball.x - paddle.x), BounceSpeed(Hypot(ball.vx, ball.vy)))

SetVelocity(b, v) == [b EXCEPT !.vx = v[1], !.vy = v[2]]

\* The collision steps act on the world w: paddle, ball, bricks, score and
\* lives of the Game, with a note of what the frame did.

CheckPaddleCollision(w) ==
    IF PaddleHit(w.ball, w.paddle)
    THEN [w EXCEPT !.ball = SetVelocity(w.ball, PaddleBounce(w.ball, w.paddle)),
                   !.score = w.score + PaddlePoints,
                   !.paddleHit = TRUE]
    ELSE w

\* a scan that keeps the last overlapping brick instead of the first
LastHit(ball, bs) ==
    LET cand == { i \in 1..Len(bs) :
                    bs[i].active /\ Overlaps(BallBounds(ball), BrickBounds(bs[i])) }
    IN  IF cand = {} THEN 0 ELSE CHOOSE i \in cand : \A j \in cand : i >= j

\* a scan that does not skip inactive bricks
FirstHitAnyBrick(ball, bs) ==
    LET cand == { i \in 1..Len(bs) : Overlaps(BallBounds(ball), BrickBounds(bs[i])) }
    IN  IF cand = {} THEN 0 ELSE CHOOSE i \in cand : \A j \in cand : i <= j

\* the index of the brick CheckBrickCollisions hits: the first active brick
\* in list order that overlaps the ball, 0 when there is none
FirstHit(ball, bs) ==
    LET cand == { i \in 1..Len(bs) :
                    bs[i].active /\ Overlaps(BallBounds(ball), BrickBounds(bs[i])) }
    IN  IF cand = {} THEN 0 ELSE CHOOSE i \in cand : \A j \in cand : i <= j

\* points that grow as lives are lost
BrickPointsRising(l) ==
    CASE l = 3 -> 5
      [] l = 2 -> 10
      [] OTHER -> 20

\* the switch on lives of CheckBrickCollisions
BrickPoints(l) ==
    CASE l = 3 -> 20
      [] l = 2 -> 10
      [] l = 1 -> 5
      [] OTHER -> 5

\* the scoring of the README: 50 for a destroyed brick, 25 for a hit
HitScoreFixed(destroyed, l) == IF destroyed THEN 50 ELSE 25

\* a scoring that takes points back for a hit that only damages
HitScoreDamagePenalty(destroyed, l) ==
    IF destroyed THEN BrickPoints(l) ELSE -(BrickPoints(l) \div 2)

\* the score of one hit
HitScore(destroyed, l) ==
    IF destroyed THEN BrickPoints(l) ELSE BrickPoints(l) \div 2

MinDist(distLeft, distRight, distTop, distBottom) ==
    Min2(Min2(Min2(distLeft, distRight), distTop), distBottom)

\* a resolveBrickCollision that turns the ball vertically when the top or
\* bottom edge is among the nearest
ResolveBrickCollisionTopFirst(ball, box) ==
    IF \/ MinDist(ball.x - box[1], box[3] - ball.x, ball.y - box[2], box[4] - ball.y)
            = ball.y - box[2]
       \/ MinDist(ball.x - box[1], box[3] - ball.x, ball.y - box[2], box[4] - ball.y)
            = box[4] - ball.y
    THEN ReverseY(ball) ELSE ReverseX(ball)

\* resolveBrickCollision against the box <<left, top, right, bottom>>
ResolveBrickCollision(ball, box) ==
    IF \/ MinDist(ball.x - box[1], box[3] - ball.x, ball.y - box[2], box[4] - ball.y)
            = ball.x - box[1]
       \/ MinDist(ball.x - box[1], box[3] - ball.x, ball.y - box[2], box[4] - ball.y)
            = box[3] - ball.x
    THEN ReverseX(ball) ELSE ReverseY(ball)

\* the body of the loop of CheckBrickCollisions for the brick i it hits
HitBrick(w, i) ==
    IF i = 0 THEN w
    ELSE [w EXCEPT !.bricks[i] = BrickAfterHit(w.bricks[i]),
                   !.score = w.score + HitScore(BrickHitDestroys(w.bricks[i]), w.lives),
                   !.ball = ResolveBrickCollision(w.ball, BrickBounds(w.bricks[i])),
                   !.hit = i]

CheckBrickCollisions(w) == HitBrick(w, FirstHit(w.ball, w.bricks))

\* a left wall that turns the ball around whichever way it moves
WallLeftAnyDirection(ball) ==
    IF ball.x - BallRadius * PX <= GameAreaLeft * PX THEN ReverseX(ball) ELSE ball

\* the two ifs of the left and right walls, one after the other
WallLeft(ball) ==
    IF ball.x - BallRadius * PX <= GameAreaLeft * PX /\ ball.vx < 0 THEN ReverseX(ball)
    ELSE ball

WallRight(ball) ==
    IF ball.x + BallRadius * PX >= GameAreaRight * PX /\ ball.vx > 0 THEN ReverseX(ball)
    ELSE ball

WallX(ball) == WallRight(WallLeft(ball))

WallY(ball) ==
    IF ball.y - BallRadius * PX <= GameAreaTop * PX /\ ball.vy < 0 THEN ReverseY(ball)
    ELSE ball

CheckWallCollisions(w) == [w EXCEPT !.ball = WallY(WallX(w.ball))]

ActiveBricks(bs) == Cardinality({ i \in 1..Len(bs) : bs[i].active })

\* ----------------------------------------------------------------------
\* Levels
\* ----------------------------------------------------------------------

MinOf(S) == CHOOSE a \in S : \A b \in S : a <= b
MaxOf(S) == CHOOSE a \in S : \A b \in S : a >= b

\* a level-file brick; Type is the "type" field of the pixel format
LevelBrick(x, y, hits) ==
    [X |-> x, Y |-> y, PixelX |-> 0, PixelY |-> 0, Type |-> "", Hits |-> hits]

BrickXs(level) == { level.Bricks[i].X : i \in 1..Len(level.Bricks) }
BrickYs(level) == { level.Bricks[i].Y : i \in 1..Len(level.Bricks) }

IsPixelFormat(level) ==
    \/ \E i \in 1..Len(level.Bricks) :
          \/ level.Bricks[i].Type # ""
          \/ level.Bricks[i].PixelX # 0
          \/ level.Bricks[i].PixelY # 0
    \/ level.BrickWidth = 0 /\ level.BrickHeight = 0

\* a LoadLevel without auto-fit
AutoFitLevelSkipped(level) == level

\* an auto-fit that rounds the new brick width up
AutoFitLevelRoundedUp(level) ==
    IF Len(level.Bricks) = 0 \/ level.BrickWidth <= 0 THEN level
    ELSE LET cols == MaxOf(BrickXs(level)) - MinOf(BrickXs(level)) + 1
             currentWidth == cols * level.BrickWidth + (cols - 1) * level.BrickSpacingX
             available == GameAreaWidth - (cols - 1) * level.BrickSpacingX
         IN  IF cols <= 0 THEN level
             ELSE IF currentWidth <= GameAreaWidth THEN level
             ELSE IF available <= 0 THEN level
             ELSE [level EXCEPT
                     !.BrickWidth = TruncDiv(available, cols) + 1,
                     !.BrickHeight = TruncDiv(available * level.BrickHeight,
                                              cols * level.BrickWidth)]

AutoFitLevel(level) ==
    IF Len(level.Bricks) = 0 \/ level.BrickWidth <= 0 THEN level
    ELSE LET cols == MaxOf(BrickXs(level)) - MinOf(BrickXs(level)) + 1
             currentWidth == cols * level.BrickWidth + (cols - 1) * level.BrickSpacingX
             available == GameAreaWidth - (cols - 1) * level.BrickSpacingX
         IN  IF cols <= 0 THEN level
             ELSE IF currentWidth <= GameAreaWidth THEN level
             ELSE IF available <= 0 THEN level
             ELSE \* newWidth = available / cols, ratio = BrickHeight / BrickWidth
                  [level EXCEPT
                     !.BrickWidth = TruncDiv(available, cols),
                     !.BrickHeight = TruncDiv(available * level.BrickHeight,
                                              cols * level.BrickWidth)]

\* a validation that lets column 12 and row 10 through
ValidateLevelOffByOne(level) ==
    /\ level.Name # ""
    /\ Len(level.Bricks) # 0
    /\ \A i \in 1..Len(level.Bricks) :
          /\ ~(level.Bricks[i].X < 0 \/ level.Bricks[i].X > BrickCols)
          /\ ~(level.Bricks[i].Y < 0 \/ level.Bricks[i].Y > BrickRows)
          /\ ~(level.Bricks[i].Hits <= 0)
    /\ LET minX == MinOf(BrickXs(level))
           maxX == MaxOf(BrickXs(level))
           minY == MinOf(BrickYs(level))
           maxY == MaxOf(BrickYs(level))
           fieldColumns == maxX - minX + 1
           fieldWidthPx == fieldColumns * level.BrickWidth
                           + (fieldColumns - 1) * level.BrickSpacingX
           \* in half pixels
           fieldStartX2 == 2 * GameAreaLeft + (GameAreaWidth - fieldWidthPx)
           fieldEndX2 == fieldStartX2 + 2 * fieldWidthPx
           verticalStride == level.BrickHeight + level.BrickSpacingY
           topMostY == GameAreaTop + minY * verticalStride
           bottomMostY == GameAreaTop + maxY * verticalStride + level.BrickHeight
       IN  /\ ~(fieldWidthPx > GameAreaWidth)
           /\ ~(fieldStartX2 < 2 * GameAreaLeft \/ fieldEndX2 > 2 * GameAreaRight)
           /\ ~(topMostY < GameAreaTop)
           /\ ~(bottomMostY > GameAreaBottom)

\* ValidateLevel returns nil
ValidateLevel(level) ==
    /\ level.Name # ""
    /\ Len(level.Bricks) # 0
    /\ \A i \in 1..Len(level.Bricks) :
          /\ ~(level.Bricks[i].X < 0 \/ level.Bricks[i].X >= BrickCols)
          /\ ~(level.Bricks[i].Y < 0 \/ level.Bricks[i].Y >= BrickRows)
          /\ ~(level.Bricks[i].Hits <= 0)
    /\ LET minX == MinOf(BrickXs(level))
           maxX == MaxOf(BrickXs(level))
           minY == MinOf(BrickYs(level))
           maxY == MaxOf(BrickYs(level))
           fieldColumns == maxX - minX + 1
           fieldWidthPx == fieldColumns * level.BrickWidth
                           + (fieldColumns - 1) * level.BrickSpacingX
           \* in half pixels
           fieldStartX2 == 2 * GameAreaLeft + (GameAreaWidth - fieldWidthPx)
           fieldEndX2 == fieldStartX2 + 2 * fieldWidthPx
           verticalStride == level.BrickHeight + level.BrickSpacingY
           topMostY == GameAreaTop + minY * verticalStride
           bottomMostY == GameAreaTop + maxY * verticalStride + level.BrickHeight
       IN  /\ ~(fieldWidthPx > GameAreaWidth)
           /\ ~(fieldStartX2 < 2 * GameAreaLeft \/ fieldEndX2 > 2 * GameAreaRight)
           /\ ~(topMostY < GameAreaTop)
           /\ ~(bottomMostY > GameAreaBottom)

\* A level file: absent, not parseable, or the Level that json.Unmarshal gives
MissingFile == [kind |-> "missing"]
MalformedFile == [kind |-> "malformed"]
LevelFile(level) == [kind |-> "level", level |-> level]

\* levels.LoadLevel on the file of the requested number; why tells which of
\* its three error returns was taken
LoadLevel(file) ==
    IF file.kind = "missing" THEN [err |-> TRUE, why |-> "read"]
    ELSE IF file.kind = "malformed" THEN [err |-> TRUE, why |-> "parse"]
    ELSE LET l0 == file.level
             l1 == IF l0.UsePixelPositioning \/ IsPixelFormat(l0)
                   THEN [l0 EXCEPT
                           !.UsePixelPositioning = TRUE,
                           !.DefaultBrickWidth =
                               IF l0.DefaultBrickWidth = 0 THEN 150 ELSE l0.DefaultBrickWidth,
                           !.DefaultBrickHeight =
                               IF l0.DefaultBrickHeight = 0 THEN 60 ELSE l0.DefaultBrickHeight]
                   ELSE AutoFitLevel(l0)
         IN  IF ValidateLevel(l1) THEN [err |-> FALSE, level |-> l1]
                                  ELSE [err |-> TRUE, why |-> "validate"]

\* ----------------------------------------------------------------------
\* Bounds and inputs of the model
\* ----------------------------------------------------------------------

\* level files exist for the numbers 1..MaxLevel at most
MaxLevel == 2

\* frames of play in which a movement key may be held
MaxMoves == 1

Keys(l, r, p, m) == [left |-> l, right |-> r, pause |-> p, mouse |-> m]

\* the key states a frame may poll
Intents ==
    { NoKeys,
      Keys(TRUE, FALSE, FALSE, FALSE),
      Keys(FALSE, TRUE, FALSE, FALSE),
      Keys(TRUE, TRUE, FALSE, FALSE),
      Keys(FALSE, FALSE, TRUE, FALSE),
      Keys(TRUE, FALSE, TRUE, FALSE),
      Keys(FALSE, FALSE, FALSE, TRUE) }

GridLevel(name, w, h, sx, sy, speed, bs) ==
    [Name |-> name, BrickWidth |-> w, BrickHeight |-> h,
     BrickSpacingX |-> sx, BrickSpacingY |-> sy,
     UsePixelPositioning |-> FALSE, DefaultBrickWidth |-> 0, DefaultBrickHeight |-> 0,
     BallSpeed |-> speed, Bricks |-> bs]

\* one brick in the first ball's way up
LevelQuick == GridLevel("quick", 150, 60, 0, 30, 3600, << LevelBrick(3, 2, 1) >>)

\* one three-hit brick below the ball-lost line
LevelLow == GridLevel("low", 900, 60, 0, 710, 3600, << LevelBrick(0, 1, 3) >>)

\* a two-hit brick that the ball meets from the side, and one out of reach
LevelSide == GridLevel("side", 110, 200, 0, 0, 3600,
                       << LevelBrick(5, 1, 2), LevelBrick(5, 4, 1) >>)

\* rejected by ValidateLevel: a brick without hits
LevelNoHits == GridLevel("nohits", 150, 60, 0, 30, 3600, << LevelBrick(3, 2, 0) >>)

LevelFiles ==
    { MissingFile, MalformedFile,
      LevelFile(LevelQuick), LevelFile(LevelLow), LevelFile(LevelSide),
      LevelFile(LevelNoHits) }

\* what os.ReadFile may find for level number n
FilesFor(n) == IF n > MaxLevel THEN { MissingFile } ELSE LevelFiles

\* ----------------------------------------------------------------------
\* Game
\* ----------------------------------------------------------------------

VARIABLES
    phase,          \* Game.state
    score,
    lives,
    currentLevel,
    paddle,
    ball,
    bricks,
    level,          \* Game.level
    keys,           \* the keys polled by the latest Update
    last,           \* what the latest Update did: the phase it started in, the
                    \* outcome of its level load ("none" without one, "ok", or
                    \* the failing step "read", "parse", "validate"), whether
                    \* the ball was lost, the brick hit (0: none), a paddle hit
    moves           \* frames of play with a movement key so far

vars == << phase, score, lives, currentLevel, paddle, ball, bricks, level,
           keys, last, moves >>

\* the simulation state the renderer reads
entities == << paddle, ball, bricks >>

Did(ph, ld, lost, hit, phit) ==
    [phase |-> ph, load |-> ld, lost |-> lost, hit |-> hit, paddleHit |-> phit]

RowXs(lv, y) == { lv.Bricks[i].X : i \in { j \in 1..Len(lv.Bricks) : lv.Bricks[j].Y = y } }

\* the bricks Game.loadLevel builds, each centred within its own row
LevelBricks(lv) ==
    [ i \in 1..Len(lv.Bricks) |->
        NewBrickFromLevelWithBounds(lv.Bricks[i],
            lv.BrickWidth, lv.BrickHeight, lv.BrickSpacingX, lv.BrickSpacingY,
            MinOf(RowXs(lv, lv.Bricks[i].Y)), MaxOf(RowXs(lv, lv.Bricks[i].Y))) ]

\* a loadLevel without the score baseline
ScoreFloorNone(levelNum, sc) == sc

\* a loadLevel that sets the score to the baseline whatever it was
ScoreFloorOverwrite(levelNum, sc) == levelNum * LevelBaseline

\* a loadLevel that guarantees the baseline of the level before
ScoreFloorPrevious(levelNum, sc) ==
    IF sc < (levelNum - 1) * LevelBaseline THEN (levelNum - 1) * LevelBaseline ELSE sc

\* the score baseline of Game.loadLevel
ScoreFloor(levelNum, sc) ==
    IF sc < levelNum * LevelBaseline THEN levelNum * LevelBaseline ELSE sc

\* Game.loadLevel(levelNum) with the score sc, given what levels.LoadLevel returned
Loaded(levelNum, r, sc) ==
    IF r.err THEN r
    ELSE [err |-> FALSE, score |-> ScoreFloor(levelNum, sc),
          level |-> r.level, bricks |-> LevelBricks(r.level)]

GameLoadLevel(levelNum, file, sc) == Loaded(levelNum, LoadLevel(file), sc)

FallbackLevel ==
    [Name |-> "Default Level", BrickWidth |-> 150, BrickHeight |-> 60,
     BrickSpacingX |-> 40, BrickSpacingY |-> 30,
     UsePixelPositioning |-> FALSE, DefaultBrickWidth |-> 0, DefaultBrickHeight |-> 0,
     BallSpeed |-> 400, Bricks |-> << >>]

FallbackBricks ==
    [ i \in 1..4 |->
        NewBrickFromLevelWithBounds(LevelBrick(i + 1, 2, 1), 150, 60, 40, 30, 2, 5) ]

\* createFallbackLevel, as a load result
Fallback(sc) ==
    [err |-> TRUE, score |-> sc, level |-> FallbackLevel, bricks |-> FallbackBricks]

\* NewGame, r its level
NewGame(r, ld) ==
    /\ phase = "Start"
    /\ lives = StartLives
    /\ currentLevel = 1
    /\ paddle = NewPaddle
    /\ score = r.score
    /\ level = r.level
    /\ bricks = r.bricks
    /\ ball = NewBallAbovePaddle(NewPaddle.x, r.level.BallSpeed)
    /\ keys = NoKeys
    /\ last = Did("New", ld, FALSE, 0, FALSE)
    /\ moves = 0

NewGameWith(r) == IF r.err THEN NewGame(Fallback(0), r.why) ELSE NewGame(r, "ok")

Init == \E f \in FilesFor(1) : NewGameWith(GameLoadLevel(1, f, 0))

\* an updateStart under which the paddle already answers the keys
UpdateStartMovesPaddle ==
    /\ phase = "Start"
    /\ \E k \in Intents :
        /\ keys' = k
        /\ phase' = IF StartInput(k) THEN "Playing" ELSE phase
        /\ paddle' = PaddleUpdate(paddle, k)
        /\ last' = Did(phase, "none", FALSE, 0, FALSE)
        /\ UNCHANGED << score, lives, currentLevel, ball, bricks, level, moves >>

UpdateStart ==
    /\ phase = "Start"
    /\ \E k \in Intents :
        /\ keys' = k
        /\ phase' = IF StartInput(k) THEN "Playing" ELSE phase
        /\ last' = Did(phase, "none", FALSE, 0, FALSE)
        /\ UNCHANGED << score, lives, currentLevel, paddle, ball, bricks, level, moves >>

\* the world at the start of a frame
World ==
    [paddle |-> paddle, ball |-> ball, bricks |-> bricks, score |-> score,
     lives |-> lives, phase |-> phase, lost |-> FALSE, hit |-> 0, paddleHit |-> FALSE]

\* g.paddle.Update(); g.ball.Update()
MoveEntities(w, k) ==
    [w EXCEPT !.paddle = PaddleUpdate(w.paddle, k), !.ball = BallUpdate(w.ball)]

\* a ball-lost check that sends the game back to the start screen
CheckBallLostRestart(w) ==
    IF BallIsLost(w.ball)
    THEN [w EXCEPT !.lives = w.lives - 1, !.phase = "Start", !.lost = TRUE]
    ELSE w

\* if g.ball.IsLost() { g.lives--; ... }
CheckBallLost(w) ==
    IF BallIsLost(w.ball)
    THEN [w EXCEPT !.lives = w.lives - 1,
                   !.phase = IF w.lives - 1 <= 0 THEN "GameOver" ELSE "WaitingToContinue",
                   !.lost = TRUE]
    ELSE w

\* a level-complete test that does not wait for the last brick
CheckLevelCompleteEarly(w) ==
    IF ActiveBricks(w.bricks) <= 1 THEN [w EXCEPT !.phase = "LevelComplete"] ELSE w

\* if activeBricks == 0 { g.state = StateLevelComplete }
CheckLevelComplete(w) ==
    IF ActiveBricks(w.bricks) = 0 THEN [w EXCEPT !.phase = "LevelComplete"] ELSE w

\* a frame that counts the active bricks before the collisions of the frame
PlayStepStaleCheck(w, k) ==
    CheckBallLost(
        CheckWallCollisions(
            CheckBrickCollisions(
                CheckPaddleCollision(
                    CheckLevelComplete(
                        MoveEntities(w, k))))))

\* a frame that looks for a lost ball after it has looked at the bricks left
PlayStepLostCheckLast(w, k) ==
    CheckBallLost(
        CheckLevelComplete(
            CheckWallCollisions(
                CheckBrickCollisions(
                    CheckPaddleCollision(
                        MoveEntities(w, k))))))

\* the frame of updatePlaying after the pause check
PlayStep(w, k) ==
    CheckLevelComplete(
        CheckBallLost(
            CheckWallCollisions(
                CheckBrickCollisions(
                    CheckPaddleCollision(
                        MoveEntities(w, k))))))

Commit(s) ==
    /\ paddle' = s.paddle
    /\ ball' = s.ball
    /\ bricks' = s.bricks
    /\ score' = s.score
    /\ lives' = s.lives
    /\ phase' = s.phase
    /\ last' = Did(phase, "none", s.lost, s.hit, s.paddleHit)

\* an updatePlaying that looks at the pause keys after the physics of the frame
UpdatePlayingPauseLate ==
    /\ phase = "Playing"
    /\ \E k \in Intents :
        /\ keys' = k
        /\ (k.left \/ k.right) => moves < MaxMoves
        /\ moves' = IF k.left \/ k.right THEN moves + 1 ELSE moves
        /\ Commit([PlayStep(World, k) EXCEPT !.phase = IF k.pause THEN "Paused" ELSE @])
        /\ UNCHANGED << currentLevel, level >>

UpdatePlaying ==
    /\ phase = "Playing"
    /\ \E k \in Intents :
        /\ keys' = k
        /\ IF k.pause
           THEN /\ phase' = "Paused"
                /\ last' = Did(phase, "none", FALSE, 0, FALSE)
                /\ UNCHANGED << score, lives, currentLevel, paddle, ball, bricks,
                                level, moves >>
           ELSE /\ (k.left \/ k.right) => moves < MaxMoves
                /\ moves' = IF k.left \/ k.right THEN moves + 1 ELSE moves
                /\ Commit(PlayStep(World, k))
                /\ UNCHANGED << currentLevel, level >>

\* an updateWaitingToContinue that respawns the ball at the centre of the screen
UpdateWaitingRespawnsCentre ==
    /\ phase = "WaitingToContinue"
    /\ \E k \in Intents :
        /\ keys' = k
        /\ IF AnyInput(k)
           THEN /\ ball' = NewBallWithSpeed(level.BallSpeed)
                /\ phase' = "Playing"
           ELSE UNCHANGED << ball, phase >>
        /\ last' = Did(phase, "none", FALSE, 0, FALSE)
        /\ UNCHANGED << score, lives, currentLevel, paddle, bricks, level, moves >>

\* an updateWaitingToContinue that serves the new ball to the left or to the
\* right as it pleases
UpdateWaitingServesEitherWay ==
    /\ phase = "WaitingToContinue"
    /\ \E k \in Intents :
        /\ keys' = k
        /\ IF AnyInput(k)
           THEN /\ ball' \in { NewBallAbovePaddle(paddle.x, level.BallSpeed),
                               ReverseX(NewBallAbovePaddle(paddle.x, level.BallSpeed)) }
                /\ phase' = "Playing"
           ELSE UNCHANGED << ball, phase >>
        /\ last' = Did(phase, "none", FALSE, 0, FALSE)
        /\ UNCHANGED << score, lives, currentLevel, paddle, bricks, level, moves >>

UpdateWaitingToContinue ==
    /\ phase = "WaitingToContinue"
    /\ \E k \in Intents :
        /\ keys' = k
        /\ IF AnyInput(k)
           THEN /\ ball' = NewBallAbovePaddle(paddle.x, level.BallSpeed)
                /\ phase' = "Playing"
           ELSE UNCHANGED << ball, phase >>
        /\ last' = Did(phase, "none", FALSE, 0, FALSE)
        /\ UNCHANGED << score, lives, currentLevel, paddle, bricks, level, moves >>

\* an updateGameOver that keeps the paddle under control
UpdateGameOverMovesPaddle ==
    /\ phase = "GameOver"
    /\ \E k \in Intents :
        /\ keys' = k
        /\ paddle' = PaddleUpdate(paddle, k)
        /\ last' = Did(phase, "none", FALSE, 0, FALSE)
        /\ UNCHANGED << phase, score, lives, currentLevel, ball, bricks, level, moves >>

UpdateGameOver ==
    /\ phase = "GameOver"
    /\ \E k \in Intents :
        /\ keys' = k
        /\ last' = Did(phase, "none", FALSE, 0, FALSE)
        /\ UNCHANGED << phase, score, lives, currentLevel, paddle, ball, bricks,
                        level, moves >>

\* an updatePaused under which the ball keeps flying
UpdatePausedBallMoves ==
    /\ phase = "Paused"
    /\ \E k \in Intents :
        /\ keys' = k
        /\ ball' = BallUpdate(ball)
        /\ phase' = IF AnyInput(k) THEN "Playing" ELSE phase
        /\ last' = Did(phase, "none", FALSE, 0, FALSE)
        /\ UNCHANGED << score, lives, currentLevel, paddle, bricks, level, moves >>

\* an updatePaused that resumes on movement and mouse only
UpdatePausedKeepsPauseKey ==
    /\ phase = "Paused"
    /\ \E k \in Intents :
        /\ keys' = k
        /\ phase' = IF StartInput(k) THEN "Playing" ELSE phase
        /\ last' = Did(phase, "none", FALSE, 0, FALSE)
        /\ UNCHANGED << score, lives, currentLevel, paddle, ball, bricks, level, moves >>

UpdatePaused ==
    /\ phase = "Paused"
    /\ \E k \in Intents :
        /\ keys' = k
        /\ phase' = IF AnyInput(k) THEN "Playing" ELSE phase
        /\ last' = Did(phase, "none", FALSE, 0, FALSE)
        /\ UNCHANGED << score, lives, currentLevel, paddle, ball, bricks, level, moves >>

\* an advance that forgets to count the level
AdvanceKeepsLevelNumber(r) ==
    IF r.err
    THEN /\ phase' = "GameOver"
         /\ last' = Did(phase, r.why, FALSE, 0, FALSE)
         /\ UNCHANGED << score, currentLevel, ball, bricks, level >>
    ELSE /\ score' = r.score
         /\ level' = r.level
         /\ bricks' = r.bricks
         /\ currentLevel' = currentLevel
         /\ ball' = NewBallAbovePaddle(paddle.x, r.level.BallSpeed)
         /\ phase' = "Playing"
         /\ last' = Did(phase, "ok", FALSE, 0, FALSE)

\* an updateLevelComplete whose failed load has already raised the score to
\* the baseline of the level that is missing
AdvanceFloorsFailedLevel(r) ==
    IF r.err
    THEN /\ phase' = "GameOver"
         /\ last' = Did(phase, r.why, FALSE, 0, FALSE)
         /\ score' = Max2(score, (currentLevel + 1) * LevelBaseline)
         /\ UNCHANGED << currentLevel, ball, bricks, level >>
    ELSE /\ score' = r.score
         /\ level' = r.level
         /\ bricks' = r.bricks
         /\ currentLevel' = currentLevel + 1
         /\ ball' = NewBallAbovePaddle(paddle.x, r.level.BallSpeed)
         /\ phase' = "Playing"
         /\ last' = Did(phase, "ok", FALSE, 0, FALSE)

\* the two branches of updateLevelComplete on the result r of loadLevel
Advance(r) ==
    IF r.err
    THEN /\ phase' = "GameOver"
         /\ last' = Did(phase, r.why, FALSE, 0, FALSE)
         /\ UNCHANGED << score, currentLevel, ball, bricks, level >>
    ELSE /\ score' = r.score
         /\ level' = r.level
         /\ bricks' = r.bricks
         /\ currentLevel' = currentLevel + 1
         /\ ball' = NewBallAbovePaddle(paddle.x, r.level.BallSpeed)
         /\ phase' = "Playing"
         /\ last' = Did(phase, "ok", FALSE, 0, FALSE)

UpdateLevelComplete ==
    /\ phase = "LevelComplete"
    /\ \E k \in Intents :
        /\ keys' = k
        /\ IF AnyInput(k)
           THEN \E f \in FilesFor(currentLevel + 1) :
                    Advance(GameLoadLevel(currentLevel + 1, f, score))
           ELSE /\ last' = Did(phase, "none", FALSE, 0, FALSE)
                /\ UNCHANGED << phase, score, currentLevel, ball, bricks, level >>
        /\ UNCHANGED << lives, paddle, moves >>

\* Game.Update: the switch on Game.state
Next ==
    \/ UpdateStart
    \/ UpdatePlaying
    \/ UpdatePaused
    \/ UpdateLevelComplete
    \/ UpdateWaitingToContinue
    \/ UpdateGameOver

Spec == Init /\ [][Next]_vars

\* ----------------------------------------------------------------------
\* The game controller, frame by frame
\* ----------------------------------------------------------------------

\* C1: across one Update the phase stays the same or changes along one of
\* Start->Playing, Playing->Paused, Playing->WaitingToContinue,
\* Playing->LevelComplete, Playing->GameOver, Paused->Playing,
\* WaitingToContinue->Playing, LevelComplete->Playing, LevelComplete->GameOver.
PhaseFollowsEdges ==
    [][ \/ phase' = phase
        \/ << phase, phase' >> \in
             { << "Start", "Playing" >>,
               << "Playing", "Paused" >>,
               << "Playing", "WaitingToContinue" >>,
               << "Playing", "LevelComplete" >>,
               << "Playing", "GameOver" >>,
               << "Paused", "Playing" >>,
               << "WaitingToContinue", "Playing" >>,
               << "LevelComplete", "Playing" >>,
               << "LevelComplete", "GameOver" >> } ]_vars

\* the game ended from LevelComplete, after a ball had been lost on the way
PhaseEdgesWalked ==
    /\ phase = "GameOver"
    /\ last.phase = "LevelComplete"
    /\ lives < StartLives

\* C2: from GameOver every Update, whatever the keys, leaves phase, score,
\* lives, currentLevel, paddle, ball and bricks as they are.
GameOverIsTerminal ==
    [][ phase = "GameOver" =>
            /\ phase' = "GameOver"
            /\ UNCHANGED << score, lives, currentLevel, paddle, ball, bricks >> ]_vars

\* an Update in GameOver that polled a movement key
GameOverTicked ==
    /\ phase = "GameOver"
    /\ last.phase = "GameOver"
    /\ keys.left

\* C3: a Playing frame without the pause keys that leaves the ball below the
\* lost line takes exactly one life and ends in GameOver if no life is left,
\* in WaitingToContinue otherwise.
LostBallEndsTurn ==
    [][ (phase = "Playing" /\ ~keys'.pause /\ BallIsLost(ball')) =>
            /\ lives' = lives - 1
            /\ phase' = IF lives' = 0 THEN "GameOver" ELSE "WaitingToContinue" ]_vars

\* C4: the Playing frame in which the last active brick goes inactive ends in
\* LevelComplete.
LastBrickCompletesLevel ==
    [][ (phase = "Playing" /\ ActiveBricks(bricks) > 0 /\ ActiveBricks(bricks') = 0) =>
            phase' = "LevelComplete" ]_vars

\* the frame just played destroyed the last brick
LastBrickDestroyed ==
    /\ phase = "LevelComplete"
    /\ last.phase = "Playing"
    /\ last.hit > 0
    /\ ActiveBricks(bricks) = 0

\* C5: a Playing frame with the pause keys ends in Paused with paddle, ball,
\* bricks, score and lives as they were before it.
PausePreemptsPhysics ==
    [][ (phase = "Playing" /\ keys'.pause) =>
            /\ phase' = "Paused"
            /\ UNCHANGED << paddle, ball, bricks, score, lives >> ]_vars

\* paused on a frame that also held a movement key
PausedWithMoveKey ==
    /\ phase = "Paused"
    /\ last.phase = "Playing"
    /\ keys.pause
    /\ keys.left

\* C6: an Update in Paused leaves paddle, ball, bricks, score, lives and
\* currentLevel as they are, and ends in Playing exactly when one of the keys
\* updatePaused polls is down: a movement key, Space/Enter or the mouse button.
PausedFreezesGame ==
    [][ phase = "Paused" =>
            /\ UNCHANGED << paddle, ball, bricks, score, lives, currentLevel >>
            /\ phase' = IF AnyInput(keys') THEN "Playing" ELSE "Paused" ]_vars

\* C6 as stated: only a confirm key (Space/Enter or the mouse button) resumes,
\* every other Update in Paused stays in Paused.
PausedResumesOnConfirmOnly ==
    [][ phase = "Paused" =>
            /\ UNCHANGED << paddle, ball, bricks, score, lives, currentLevel >>
            /\ phase' = IF keys'.pause \/ keys'.mouse THEN "Playing" ELSE "Paused" ]_vars

\* play resumed from Paused on a movement key alone
ResumedByMoveKey ==
    /\ phase = "Playing"
    /\ last.phase = "Paused"
    /\ keys.left
    /\ ~keys.pause
    /\ ~keys.mouse

\* C7: an Update in WaitingToContinue with a movement key, Space/Enter or the
\* mouse button down ends in Playing with a fresh ball above the paddle's x
\* at the level's ball speed, and leaves lives, score, currentLevel, paddle
\* and bricks as they are; with none of these keys down it changes nothing.
ContinueRespawnsBall ==
    [][ phase = "WaitingToContinue" =>
            IF AnyInput(keys')
            THEN /\ phase' = "Playing"
                 /\ ball' = NewBallAbovePaddle(paddle.x, level.BallSpeed)
                 /\ ball'.x = paddle.x
                 /\ ball'.y + BallRadius * PX < PaddleBounds(paddle)[2]
                 /\ ball'.speed = level.BallSpeed * VU
                 /\ ball'.vy = -ball'.speed
                 /\ UNCHANGED << lives, score, currentLevel, paddle, bricks >>
            ELSE UNCHANGED << phase, ball, lives, score, currentLevel, paddle,
                              bricks >> ]_vars

\* C7 as stated: the same, with a confirm key (Space/Enter or the mouse
\* button) as the only trigger.
ContinueOnConfirmOnly ==
    [][ phase = "WaitingToContinue" =>
            IF keys'.pause \/ keys'.mouse
            THEN /\ phase' = "Playing"
                 /\ ball' = NewBallAbovePaddle(paddle.x, level.BallSpeed)
                 /\ UNCHANGED << lives, score, currentLevel, paddle, bricks >>
            ELSE UNCHANGED << phase, ball, lives, score, currentLevel, paddle,
                              bricks >> ]_vars

\* continued after a lost ball, the paddle away from the centre and the ball
\* above it
ContinuedAbovePaddle ==
    /\ phase = "Playing"
    /\ last.phase = "WaitingToContinue"
    /\ paddle.x # NewPaddle.x
    /\ ball.x = paddle.x
    /\ lives < StartLives

\* C8: an Update in LevelComplete with a movement key, Space/Enter or the
\* mouse button down loads level currentLevel+1: on success currentLevel grows
\* by one, the bricks are those of the new level, all active with the hits of
\* the level data, the ball is respawned and the phase is Playing; on failure
\* the phase is GameOver.  With none of these keys down nothing is loaded and
\* nothing changes.  currentLevel changes in no other Update.
AdvanceOnInput ==
    [][ /\ (phase = "LevelComplete" /\ AnyInput(keys')) =>
            \/ /\ last'.load = "ok"
               /\ currentLevel' = currentLevel + 1
               /\ bricks' = LevelBricks(level')
               /\ \A i \in 1..Len(level'.Bricks) :
                      bricks'[i].active /\ bricks'[i].hits = level'.Bricks[i].Hits
               /\ ball' = NewBallAbovePaddle(paddle.x, level'.BallSpeed)
               /\ phase' = "Playing"
            \/ /\ last'.load \in { "read", "parse", "validate" }
               /\ phase' = "GameOver"
               /\ UNCHANGED << currentLevel, bricks, ball, score, level >>
        /\ (phase = "LevelComplete" /\ ~AnyInput(keys')) =>
            /\ last'.load = "none"
            /\ UNCHANGED << phase, currentLevel, bricks, ball, score, level >>
        /\ currentLevel' # currentLevel =>
            phase = "LevelComplete" /\ last'.load = "ok" ]_vars

\* C8 as stated: every Update in LevelComplete attempts the load, and so ends
\* in Playing or GameOver.
LevelCompleteAlwaysLoads ==
    [][ phase = "LevelComplete" =>
            /\ last'.load # "none"
            /\ phase' \in { "Playing", "GameOver" } ]_vars

\* level 2 just loaded from LevelComplete
AdvancedToNextLevel ==
    /\ phase = "Playing"
    /\ last.phase = "LevelComplete"
    /\ last.load = "ok"
    /\ currentLevel = 2
    /\ ActiveBricks(bricks) = Len(level.Bricks)

\* C9: after a level load that failed on parsing or validation, at the start
\* of the game or when advancing, the game is not over and has at least one
\* active brick.
BadLevelFallsBack ==
    last.load \in { "parse", "validate" } =>
        phase # "GameOver" /\ ActiveBricks(bricks) >= 1

\* ----------------------------------------------------------------------
\* Level loads from every score
\* ----------------------------------------------------------------------

\* points made on a level before it is cleared: a few, and enough to pass the
\* baselines of the next levels
ScoreGains == { 5, 1000, 2000, 3500 }

\* the bricks of a level, all destroyed
Cleared(bs) == [ i \in DOMAIN bs |-> [bs[i] EXCEPT !.hits = 0, !.active = FALSE] ]

\* the game when updatePlaying has found level n cleared with the score sc,
\* r the load that had built the level
ClearedGame(n, sc, r) ==
    /\ phase = "LevelComplete"
    /\ currentLevel = n
    /\ score = sc
    /\ lives = StartLives
    /\ paddle = NewPaddle
    /\ level = r.level
    /\ bricks = Cleared(r.bricks)
    /\ ball = NewBallAbovePaddle(NewPaddle.x, r.level.BallSpeed)
    /\ keys = NoKeys
    /\ last = Did("Playing", "none", FALSE, Len(r.bricks), FALSE)
    /\ moves = 0

\* a new game, a cleared level of any number with any of the scores, or the
\* cleared fallback level
InitLoad ==
    \/ Init
    \/ \E n \in 1..MaxLevel, d \in ScoreGains :
           ClearedGame(n, n * LevelBaseline + d,
                       GameLoadLevel(n, LevelFile(LevelQuick), 0))
    \/ ClearedGame(1, 4 * HitScore(TRUE, StartLives), Fallback(0))

\* the Updates that load levels or follow a load
NextLoad ==
    \/ UpdateStart
    \/ UpdateLevelComplete
    \/ UpdateGameOver

SpecLoad == InitLoad /\ [][NextLoad]_vars

\* C10: right after a successful load of level N, in NewGame or from
\* LevelComplete, the score is the larger of the score before the load and
\* N*1000; so it is at least N*1000 and not below the score before.
ScoreFloorOnLoad ==
    /\ [](last.phase = "New" /\ last.load = "ok" =>
              score = Max2(0, currentLevel * LevelBaseline))
    /\ [][ last'.load = "ok" =>
               /\ score' = Max2(score, currentLevel' * LevelBaseline)
               /\ score' >= currentLevel' * LevelBaseline
               /\ score' >= score ]_vars

\* a level loaded with a score already above its baseline
LoadedAboveBaseline ==
    /\ last.load = "ok"
    /\ last.phase = "LevelComplete"
    /\ phase = "Playing"
    /\ score > currentLevel * LevelBaseline

\* ----------------------------------------------------------------------
\* Score, construction and the start screen
\* ----------------------------------------------------------------------

\* C11: no Update, in any phase and with any keys, collisions and load
\* outcome, lowers the score.
ScoreNeverDecreases == [][ score' >= score ]_vars

\* the score has grown by brick points and then by the baseline of level 2
ScoreGrewTwice ==
    /\ currentLevel = 2
    /\ last.load = "ok"
    /\ score = 2 * LevelBaseline
    /\ lives < StartLives

\* C12: a new game is in phase Start with 3 lives and currentLevel 1; its
\* score is 1000, the baseline of level 1, when level 1 was loaded, and 0
\* when the fallback level took its place.
NewGameState ==
    last.phase = "New" =>
        /\ phase = "Start"
        /\ lives = 3
        /\ currentLevel = 1
        /\ score = IF last.load = "ok" THEN 1000 ELSE 0

\* C12 as stated: the score of a new game is 0.
NewGameScoreZero ==
    last.phase = "New" =>
        /\ phase = "Start"
        /\ lives = 3
        /\ currentLevel = 1
        /\ score = 0

\* a new game whose level 1 was loaded from its file
NewGameWithLevelOne ==
    /\ last.phase = "New"
    /\ last.load = "ok"
    /\ level.Name = "quick"
    /\ score = LevelBaseline

\* C13: an Update in Start ends in Playing exactly when a movement key or the
\* mouse button is down (Space and Enter do not start the game), and in
\* either case leaves paddle, ball, bricks, score and lives as they are.
StartOnMoveOrClick ==
    [][ phase = "Start" =>
            /\ phase' = IF keys'.left \/ keys'.right \/ keys'.mouse
                        THEN "Playing" ELSE "Start"
            /\ UNCHANGED << paddle, ball, bricks, score, lives >> ]_vars

\* C13 as stated: any movement or confirm key (Space/Enter or the mouse
\* button) starts the game.
StartOnAnyIntent ==
    [][ phase = "Start" =>
            /\ phase' = IF keys'.left \/ keys'.right \/ keys'.pause \/ keys'.mouse
                        THEN "Playing" ELSE "Start"
            /\ UNCHANGED << paddle, ball, bricks, score, lives >> ]_vars

\* still on the start screen after an Update with Space or Enter down
StartIgnoredSpace ==
    /\ phase = "Start"
    /\ last.phase = "Start"
    /\ keys.pause
    /\ paddle = NewPaddle

\* ----------------------------------------------------------------------
\* The collision steps one at a time
\* ----------------------------------------------------------------------

\* the most hits a brick of the scenes below starts with
MaxHits == 3

\* ball velocities in px/s: the four diagonals of a 240 px/s ball, straight
\* down, and steep down
StepVelocities ==
    { << 240, 240 >>, << -240, 240 >>, << 240, -240 >>, << -240, -240 >>,
      << 0, 300 >>, << 90, 400 >> }

\* a ball at <<x, y>> px moving at <<vx, vy>> px/s
BallAt(pos, vel) ==
    [x |-> pos[1] * PX, y |-> pos[2] * PX,
     vx |-> vel[1] * VU, vy |-> vel[2] * VU, speed |-> 240 * VU]

\* two bricks side by side without a gap, 100x40 px, in row 1: brick 1 spans
\* x 620..720 and brick 2 x 720..820, both y 100..140
PairLevel == GridLevel("pair", 100, 40, 0, 0, 240,
                       << LevelBrick(0, 1, 1), LevelBrick(1, 1, 1) >>)

\* a brick of the pair after some hits: h hits left, destroyed when h = 0
Worn(b, h) == [b EXCEPT !.hits = h, !.active = (h > 0)]

PairBricks(h1, h2) ==
    << Worn(LevelBricks(PairLevel)[1], h1), Worn(LevelBricks(PairLevel)[2], h2) >>

\* a level of one brick, 100x40 px, spanning x 670..770 and y 100..140
SoloLevel == GridLevel("solo", 100, 40, 0, 0, 240, << LevelBrick(0, 1, 1) >>)

SoloBricks(h) == << Worn(LevelBricks(SoloLevel)[1], h) >>

\* ball centres inside the one brick, 15 px from both its left and its top
\* edge, and clear of it
SoloSpots == { << 720, 120 >>, << 685, 115 >>, << 400, 120 >> }

\* ball centres around the pair: on the seam (over both bricks), inside
\* brick 1, at the lower right corner of brick 2, and clear of both
BrickSpots == { << 720, 120 >>, << 670, 125 >>, << 815, 145 >>, << 400, 120 >> }

\* paddle centres: mid screen and the two ends of its range
PaddleSpots == { 360, 60, 660 }

\* ball centres relative to the paddle centre, from beyond the left end to
\* beyond the right end
PaddleOffsets == { -70, -60, -45, -30, -13, 0, 7, 30, 60, 68, 90 }

\* ball heights around the paddle (top 700, bottom 720): touching from
\* above, inside, touching from below, and below
PaddleHeights == { 690, 705, 730, 735 }

\* what a step did: Did, with the step and the value Brick.Hit returned
Stepped(op, hit, phit, destroyed) ==
    [phase |-> "Playing", load |-> "none", lost |-> FALSE, hit |-> hit,
     paddleHit |-> phit, op |-> op, destroyed |-> destroyed]

\* a game in play with the given entities
Scene(lv, pd, b, bs, l) ==
    /\ phase = "Playing"
    /\ currentLevel = 1
    /\ score = LevelBaseline
    /\ lives = l
    /\ paddle = pd
    /\ ball = b
    /\ bricks = bs
    /\ level = lv
    /\ keys = NoKeys
    /\ last = Stepped("none", 0, FALSE, FALSE)
    /\ moves = 0

InitStep ==
    \/ \E h1 \in 0..MaxHits, h2 \in 0..MaxHits, pos \in BrickSpots,
          vel \in StepVelocities, l \in 0..StartLives :
           Scene(PairLevel, NewPaddle, BallAt(pos, vel), PairBricks(h1, h2), l)
    \/ \E h \in 0..MaxHits, pos \in SoloSpots, vel \in StepVelocities,
          l \in 0..StartLives :
           Scene(SoloLevel, NewPaddle, BallAt(pos, vel), SoloBricks(h), l)
    \/ \E px \in PaddleSpots, dx \in PaddleOffsets, y \in PaddleHeights,
          vel \in StepVelocities, l \in { 1, StartLives } :
           Scene(PairLevel, [x |-> px * PX, vx |-> 0],
                 BallAt(<< px + dx, y >>, vel), PairBricks(1, 1), l)

\* the game after a step that left the world s
StepCommit(s, did) ==
    /\ paddle' = s.paddle
    /\ ball' = s.ball
    /\ bricks' = s.bricks
    /\ score' = s.score
    /\ lives' = s.lives
    /\ phase' = s.phase
    /\ last' = did
    /\ UNCHANGED << currentLevel, level, keys, moves >>

\* brick.Hit() on brick i
StepHit ==
    \E i \in 1..Len(bricks) :
        StepCommit([World EXCEPT !.bricks[i] = BrickAfterHit(bricks[i])],
                   Stepped("Hit", i, FALSE, BrickHitDestroys(bricks[i])))

StepNoted(op, s, destroyed) ==
    StepCommit(s, Stepped(op, s.hit, s.paddleHit, destroyed))

\* g.physics.CheckPaddleCollision
StepPaddleCollision == StepNoted("Paddle", CheckPaddleCollision(World), FALSE)

\* g.physics.CheckBrickCollisions
StepBrickCollisions ==
    StepNoted("Bricks", CheckBrickCollisions(World),
              FirstHit(ball, bricks) > 0
                  /\ BrickHitDestroys(bricks[Max2(1, FirstHit(ball, bricks))]))

NextStep ==
    \/ StepHit
    \/ StepPaddleCollision
    \/ StepBrickCollisions

SpecStep == InitStep /\ [][NextStep]_vars

\* C14: Brick.Hit on an active brick with one hit left returns true and
\* leaves the brick inactive; on an active brick with n > 1 hits it leaves
\* n-1 hits, returns false and the brick stays active; on an inactive brick
\* it returns false and leaves hits and active as they are.  No other brick
\* is touched.
HitContract ==
    [][ last'.op = "Hit" =>
            /\ (bricks[last'.hit].active /\ bricks[last'.hit].hits = 1) =>
                   /\ last'.destroyed
                   /\ ~bricks'[last'.hit].active
            /\ (bricks[last'.hit].active /\ bricks[last'.hit].hits > 1) =>
                   /\ ~last'.destroyed
                   /\ bricks'[last'.hit].hits = bricks[last'.hit].hits - 1
                   /\ bricks'[last'.hit].active
            /\ ~bricks[last'.hit].active =>
                   /\ ~last'.destroyed
                   /\ bricks'[last'.hit].hits = bricks[last'.hit].hits
                   /\ ~bricks'[last'.hit].active
            /\ \A j \in 1..Len(bricks) : j # last'.hit => bricks'[j] = bricks[j] ]_vars

\* Hit has just destroyed brick 1 while brick 2, destroyed before, was left
\* alone
HitDestroyedBrick ==
    /\ last.op = "Hit"
    /\ last.hit = 1
    /\ last.destroyed
    /\ ~bricks[1].active
    /\ ~bricks[2].active
    /\ bricks[2].hits = 0

\* C15: within a level (every Update that loads none) no brick gains hits;
\* at every frame boundary a brick is active exactly when it has a hit left,
\* so it goes inactive in the Update that takes its last hit; an inactive
\* brick is never changed again, is never the brick the scan hits, and a
\* frame that hits no active brick scores nothing but the paddle bonus.
BrickLifecycle ==
    /\ [](\A i \in 1..Len(bricks) : bricks[i].active <=> bricks[i].hits >= 1)
    /\ [][ last'.load # "ok" =>
               /\ Len(bricks') = Len(bricks)
               /\ \A i \in 1..Len(bricks) :
                      /\ bricks'[i].hits <= bricks[i].hits
                      /\ ~bricks[i].active => bricks'[i] = bricks[i]
                      /\ (bricks[i].active /\ ~bricks'[i].active) =>
                             (bricks[i].hits = 1 /\ bricks'[i].hits = 0)
               /\ last'.hit > 0 => bricks[last'.hit].active
               /\ last'.hit = 0 =>
                      score' = score + (IF last'.paddleHit THEN 10 ELSE 0) ]_vars

\* in play, the ball over a destroyed brick that the frame left alone
BallOverDestroyedBrick ==
    /\ phase = "Playing"
    /\ last.phase = "Playing"
    /\ last.hit = 0
    /\ \E i \in 1..Len(bricks) :
           /\ ~bricks[i].active
           /\ Overlaps(BallBounds(ball), BrickBounds(bricks[i]))

\* C16: the brick step of a frame changes at most one brick: the first
\* active brick in list order whose box overlaps the ball's loses exactly one
\* hit, and every other brick, overlapping or not, is left as it is; without
\* such a brick no brick changes.
OneBrickPerFrame ==
    [][ last'.op = "Bricks" =>
            /\ (\A i \in 1..Len(bricks) :
                    ~(bricks[i].active
                        /\ Overlaps(BallBounds(ball), BrickBounds(bricks[i])))) =>
                   bricks' = bricks
            /\ \A i \in 1..Len(bricks) :
                   ( /\ bricks[i].active
                     /\ Overlaps(BallBounds(ball), BrickBounds(bricks[i]))
                     /\ \A j \in 1..(i - 1) :
                            ~(bricks[j].active
                                /\ Overlaps(BallBounds(ball), BrickBounds(bricks[j]))) )
                   => /\ bricks'[i].hits = bricks[i].hits - 1
                      /\ \A j \in 1..Len(bricks) : j # i => bricks'[j] = bricks[j] ]_vars

\* the brick step hit brick 1 and left brick 2, also active and under the
\* ball, as it was
SecondBrickSpared ==
    /\ last.op = "Bricks"
    /\ last.hit = 1
    /\ bricks[2].active
    /\ bricks[2].hits = MaxHits
    /\ Overlaps(BallBounds(ball), BrickBounds(bricks[2]))
    /\ Overlaps(BallBounds(ball), BrickBounds(bricks[1]))

PaddleStepEffect ==
    [][ last'.op = "Paddle" =>
            /\ IF /\ ball.vy > 0
                  /\ ball.x + BallRadius * PX >= paddle.x - (PaddleWidth * PX) \div 2
                  /\ ball.x - BallRadius * PX <= paddle.x + (PaddleWidth * PX) \div 2
                  /\ ball.y + BallRadius * PX >= PaddleY * PX
                  /\ ball.y - BallRadius * PX <= (PaddleY + PaddleHeight) * PX
               THEN score' = score + 10
               ELSE score' = score /\ ball'.vx = ball.vx /\ ball'.vy = ball.vy
            /\ ball'.x = ball.x
            /\ ball'.y = ball.y
            /\ UNCHANGED << paddle, bricks, lives >> ]_vars

\* the paddle step has left alone a ball that overlaps the paddle on its way
\* up
RisingBallPassed ==
    /\ last.op = "Paddle"
    /\ ~last.paddleHit
    /\ ball.vy < 0
    /\ Overlaps(BallBounds(ball), PaddleBounds(paddle))
    /\ score = LevelBaseline
    /\ lives = 1

\* C20: a paddle bounce keeps the speed of the ball (to the rounding of the
\* square roots, one velocity unit), sends it upward with a vertical part of
\* at least half the speed, and gives it a horizontal part of at most three
\* quarters of the speed.
BounceKeepsSpeed ==
    [][ (last'.op = "Paddle" /\ last'.paddleHit) =>
            /\ Abs(Hypot(ball'.vx, ball'.vy) - Hypot(ball.vx, ball.vy)) <= 1
            /\ ball'.vy < 0
            /\ 4 * ball'.vy * ball'.vy >= ball.vx * ball.vx + ball.vy * ball.vy
            /\ 16 * ball'.vx * ball'.vx <= 9 * (ball.vx * ball.vx + ball.vy * ball.vy) ]_vars

\* a bounce off the very end of the paddle
BouncedOffPaddleEnd ==
    /\ last.op = "Paddle"
    /\ last.paddleHit
    /\ Abs(ball.x - paddle.x) >= (PaddleWidth * PX) \div 2
    /\ ball.vx # 0
    /\ ball.vy < 0

\* ----------------------------------------------------------------------
\* The wall step on balls around the gameplay area
\* ----------------------------------------------------------------------

\* ball centres in px across the gameplay area: beyond, on and inside the
\* left wall (ball edge at x = 20), mid field, and the same at the right wall
\* (ball edge at x = 1420)
WallXs == { 25, 30, 31, 700, 1409, 1410, 1415 }

\* beyond, on and below the top wall (ball edge at y = 60), mid field, and
\* short of, on and beyond the bottom of the area (ball edge at y = 1060)
WallYs == { 65, 70, 71, 500, 1049, 1050, 1055 }

\* velocities in px/s: every direction of the compass, and at rest
WallVelocities ==
    { << vx, vy >> : vx \in { -240, 0, 240 }, vy \in { -240, 0, 240 } }

\* what the wall step did: whether it called ReverseX, ReverseY
WallStepped(rx, ry) ==
    [phase |-> "Playing", load |-> "none", lost |-> FALSE, hit |-> 0,
     paddleHit |-> FALSE, op |-> "Wall", destroyed |-> FALSE,
     reversedX |-> rx, reversedY |-> ry]

InitWall ==
    \E x \in WallXs, y \in WallYs, vel \in WallVelocities :
        Scene(SoloLevel, NewPaddle, BallAt(<< x, y >>, vel), SoloBricks(1), StartLives)

\* g.physics.CheckWallCollisions
StepWallCollisions ==
    StepCommit(CheckWallCollisions(World),
               WallStepped(WallX(ball).vx # ball.vx, WallY(ball).vy # ball.vy))

NextWall == StepWallCollisions

SpecWall == InitWall /\ [][NextWall]_vars

\* C21: the wall step negates the horizontal velocity exactly when the
\* ball's left edge is at or beyond the left boundary with vx < 0 or its
\* right edge at or beyond the right boundary with vx > 0, and the vertical
\* velocity exactly when its top edge is at or beyond the top boundary with
\* vy < 0; it changes nothing else, the bottom boundary plays no part; after
\* it the ball is not at or beyond the left, right or top boundary while
\* moving outward through it.
WallStepEffect ==
    [][ last'.op = "Wall" =>
            /\ ball'.vx =
                 IF \/ ball.x - BallRadius * PX <= GameAreaLeft * PX /\ ball.vx < 0
                    \/ ball.x + BallRadius * PX >= GameAreaRight * PX /\ ball.vx > 0
                 THEN -ball.vx ELSE ball.vx
            /\ ball'.vy =
                 IF ball.y - BallRadius * PX <= GameAreaTop * PX /\ ball.vy < 0
                 THEN -ball.vy ELSE ball.vy
            /\ ball'.x = ball.x
            /\ ball'.y = ball.y
            /\ UNCHANGED << paddle, bricks, score, lives, phase >>
            /\ ~(ball'.x - BallRadius * PX <= GameAreaLeft * PX /\ ball'.vx < 0)
            /\ ~(ball'.x + BallRadius * PX >= GameAreaRight * PX /\ ball'.vx > 0)
            /\ ~(ball'.y - BallRadius * PX <= GameAreaTop * PX /\ ball'.vy < 0) ]_vars

\* the wall step has turned back a ball in the top left corner on both axes
TurnedInCorner ==
    /\ last.op = "Wall"
    /\ last.reversedX
    /\ last.reversedY
    /\ ball.x - BallRadius * PX < GameAreaLeft * PX
    /\ ball.y - BallRadius * PX = GameAreaTop * PX
    /\ ball.vx > 0
    /\ ball.vy > 0

\* ----------------------------------------------------------------------
\* The paddle on its own
\* ----------------------------------------------------------------------

\* calls of Paddle.Update in a row
MaxPaddleSteps == 4

\* paddle centres in px: on and next to the left stop (60), mid screen, next
\* to and on the right stop (660)
PaddleXs == { 60, 61, 64, 360, 656, 659, 660 }

\* paddle velocities in px/s: the terminal velocity either way, slow either
\* way, and at rest
PaddleVXs == { -450, -125, 0, 80, 450 }

\* what Paddle.Update did, with the paddle it started from
PaddleStepped(from) ==
    [phase |-> "Playing", load |-> "none", lost |-> FALSE, hit |-> 0,
     paddleHit |-> FALSE, op |-> "Update", destroyed |-> FALSE, from |-> from]

InitPaddle ==
    \E x \in PaddleXs, vx \in PaddleVXs :
        Scene(SoloLevel, [x |-> x * PX, vx |-> vx * VU],
              BallAt(<< 700, 500 >>, << 240, -240 >>), SoloBricks(1), StartLives)

\* g.paddle.Update() with the keys k down
StepPaddleUpdate ==
    /\ moves < MaxPaddleSteps
    /\ \E k \in Intents :
        /\ keys' = k
        /\ paddle' = PaddleUpdate(paddle, k)
        /\ moves' = moves + 1
        /\ last' = PaddleStepped(paddle)
        /\ UNCHANGED << phase, score, lives, currentLevel, ball, bricks, level >>

NextPaddle == StepPaddleUpdate

SpecPaddle == InitPaddle /\ [][NextPaddle]_vars

GameFields ==
    [phase |-> phase, score |-> score, lives |-> lives,
     currentLevel |-> currentLevel, paddle |-> paddle, ball |-> ball,
     bricks |-> bricks, level |-> level]

\* what Game.loadLevel(currentLevel + 1) returned, told from its outcome ld
\* and the level lv it installed
LoadResult(ld, lv) ==
    IF ld = "ok" THEN Loaded(currentLevel + 1, [err |-> FALSE, level |-> lv], score)
    ELSE [err |-> TRUE, why |-> ld]

\* the game after a frame of play that left the world w
PlayedOutcome(w) ==
    [GameFields EXCEPT !.paddle = w.paddle, !.ball = w.ball, !.bricks = w.bricks,
                      !.score = w.score, !.lives = w.lives, !.phase = w.phase]

\* the game after updateLevelComplete has got r from loadLevel
AdvancedOutcome(r) ==
    IF r.err THEN [GameFields EXCEPT !.phase = "GameOver"]
    ELSE [GameFields EXCEPT !.score = r.score, !.level = r.level,
                           !.bricks = r.bricks, !.currentLevel = currentLevel + 1,
                           !.ball = NewBallAbovePaddle(paddle.x, r.level.BallSpeed),
                           !.phase = "Playing"]

\* the game after Update with the keys k down, r the result of the level
\* load if the Update makes one
UpdateOutcome(k, r) ==
    CASE phase = "Start" ->
           [GameFields EXCEPT !.phase = IF StartInput(k) THEN "Playing" ELSE @]
      [] phase = "Playing" ->
           IF k.pause THEN [GameFields EXCEPT !.phase = "Paused"]
           ELSE PlayedOutcome(PlayStep(World, k))
      [] phase = "Paused" ->
           [GameFields EXCEPT !.phase = IF AnyInput(k) THEN "Playing" ELSE @]
      [] phase = "WaitingToContinue" ->
           IF AnyInput(k)
           THEN [GameFields EXCEPT
                   !.ball = NewBallAbovePaddle(paddle.x, level.BallSpeed),
                   !.phase = "Playing"]
           ELSE GameFields
      [] phase = "LevelComplete" ->
           IF AnyInput(k) THEN AdvancedOutcome(r) ELSE GameFields
      [] OTHER -> GameFields

Layouts ==
    { << 150, 60, 40, 30 >>, << 150, 60, 0, 30 >>, << 100, 40, 0, 0 >>,
      << 150, 60, 200, 30 >>, << 0, 0, 0, 0 >>, << 150, 200, 0, 0 >>,
      << 150, 60, 40, -100 >>, << 150, 60, 127, 30 >>, << 0, 60, 40, 30 >> }

\* a level-file brick of the pixel format
PixelBrick(px, py, type, hits) ==
    [X |-> 0, Y |-> 0, PixelX |-> px, PixelY |-> py, Type |-> type, Hits |-> hits]

\* the bricks of the level files: sound ones in three corners of the grid,
\* one outside the grid on each of its four sides, one without hits and one
\* with negative hits, one of the pixel format
FileBricks ==
    { LevelBrick(0, 0, 1), LevelBrick(11, 9, MaxHits), LevelBrick(5, 2, 1),
      LevelBrick(-1, 0, 1), LevelBrick(12, 0, 1), LevelBrick(0, -1, 1),
      LevelBrick(0, 10, 1), LevelBrick(3, 2, 0), LevelBrick(3, 2, -1),
      PixelBrick(1300, 990, "green", 1) }

\* brick lists of up to two bricks
FileBrickLists ==
    { << >> } \cup { << a >> : a \in FileBricks }
              \cup { << a, b >> : a \in FileBricks, b \in FileBricks }

\* what the level directory may hold for one level number
FileFamily ==
    { MissingFile, MalformedFile }
    \cup { LevelFile([GridLevel(name, lay[1], lay[2], lay[3], lay[4], 240, bs)
                        EXCEPT !.UsePixelPositioning = pix]) :
             name \in { "", "lvl" }, lay \in Layouts, bs \in FileBrickLists,
             pix \in BOOLEAN }

\* what a load did: its outcome and the file it read
LoadStepped(op, ld, file) ==
    [phase |-> "New", load |-> ld, lost |-> FALSE, hit |-> 0, paddleHit |-> FALSE,
     op |-> op, destroyed |-> FALSE, file |-> file]

\* a game on the fallback level, the file of level 1 on disk
InitLevels ==
    \E f \in FileFamily :
        /\ phase = "Start"
        /\ currentLevel = 1
        /\ score = 0
        /\ lives = StartLives
        /\ paddle = NewPaddle
        /\ level = FallbackLevel
        /\ bricks = FallbackBricks
        /\ ball = NewBallAbovePaddle(NewPaddle.x, FallbackLevel.BallSpeed)
        /\ keys = NoKeys
        /\ last = LoadStepped("none", "none", f)
        /\ moves = 0

\* the game after loadLevel has got r
LoadCommit(r) ==
    /\ last' = LoadStepped("Load", IF r.err THEN r.why ELSE "ok", last.file)
    /\ IF r.err THEN UNCHANGED << score, level, bricks >>
       ELSE /\ score' = r.score
            /\ level' = r.level
            /\ bricks' = r.bricks
    /\ UNCHANGED << phase, lives, currentLevel, paddle, ball, keys, moves >>

\* g.loadLevel(1)
StepLoadLevel == LoadCommit(GameLoadLevel(currentLevel, last.file, score))

\* a default level whose gaps are wider than its bricks
CreateDefaultLevelWide ==
    GridLevel("Default Level", 150, 60, 300, 30, 400,
              << LevelBrick(4, 2, 1), LevelBrick(5, 2, 1),
                 LevelBrick(6, 2, 1), LevelBrick(7, 2, 1) >>)

\* levels.CreateDefaultLevel
CreateDefaultLevel ==
    GridLevel("Default Level", 150, 60, 25, 30, 400,
              << LevelBrick(4, 2, 1), LevelBrick(5, 2, 1),
                 LevelBrick(6, 2, 1), LevelBrick(7, 2, 1) >>)

\* the fallback of a failed load: what loadLevel would have got from a file
\* holding the default level
DefaultResult(lv) ==
    IF ValidateLevel(lv) THEN [err |-> FALSE, level |-> lv]
    ELSE [err |-> TRUE, why |-> "validate"]

DefaultCommit(lv, r) ==
    /\ last' = LoadStepped("Default", IF r.err THEN r.why ELSE "ok", LevelFile(lv))
    /\ level' = lv
    /\ bricks' = LevelBricks(lv)
    /\ UNCHANGED << phase, score, lives, currentLevel, paddle, ball, keys, moves >>

\* the default level built, validated and installed
StepCreateDefaultLevel ==
    DefaultCommit(CreateDefaultLevel, DefaultResult(CreateDefaultLevel))

NextLevels ==
    \/ StepLoadLevel
    \/ StepCreateDefaultLevel

SpecLevels == InitLevels /\ [][NextLevels]_vars

\* the level a file holds
FileLevel == last.file.level

\* a level with one of the defects that ValidateLevel names first
Defective(lv) ==
    \/ lv.Name = ""
    \/ Len(lv.Bricks) = 0
    \/ \E i \in 1..Len(lv.Bricks) :
          \/ lv.Bricks[i].Hits <= 0
          \/ lv.Bricks[i].X \notin 0..11
          \/ lv.Bricks[i].Y \notin 0..9

\* C24: a level file with an empty name, no bricks, a brick with hits <= 0
\* or a brick whose column is outside 0..11 or whose row is outside 0..9 is
\* rejected by the validation of LoadLevel, and no level that LoadLevel
\* returns has any of these defects.
DefectiveLevelRejected ==
    last.op = "Load" =>
        /\ (last.file.kind = "level" /\ Defective(FileLevel)) =>
               last.load = "validate"
        /\ last.load = "ok" => ~Defective(level)

\* a level rejected for nothing but a brick in column 12
ColumnTwelveRejected ==
    /\ last.op = "Load"
    /\ last.load = "validate"
    /\ FileLevel.Name = "lvl"
    /\ ~FileLevel.UsePixelPositioning
    /\ FileLevel.BrickWidth = 100
    /\ FileLevel.Bricks = << LevelBrick(12, 0, 1) >>

\* a box <<left, top, right, bottom>> within the gameplay area
WithinGameArea(box) ==
    /\ box[1] >= GameAreaLeft * PX
    /\ box[3] <= GameAreaRight * PX
    /\ box[2] >= GameAreaTop * PX
    /\ box[4] <= GameAreaBottom * PX

\* C25: after a level has been loaded, grid or pixel format, the box of
\* every brick, as GetBounds computes it in play, lies within the gameplay
\* area.
LoadedBricksWithinArea ==
    (last.op = "Load" /\ last.load = "ok") =>
        \A i \in 1..Len(bricks) : WithinGameArea(BrickBounds(bricks[i]))

\* columns between the leftmost and the rightmost brick of a level
FieldColumns(lv) == MaxOf(BrickXs(lv)) - MinOf(BrickXs(lv)) + 1

\* the brick field width of a level as configured: columns x brick width
\* plus the gaps
FieldWidth(lv) ==
    FieldColumns(lv) * lv.BrickWidth + (FieldColumns(lv) - 1) * lv.BrickSpacingX

\* the gaps of the field alone
FieldGaps(lv) == (FieldColumns(lv) - 1) * lv.BrickSpacingX

\* a level file that LoadLevel treats as grid format
GridFormat(lv) == ~lv.UsePixelPositioning /\ ~IsPixelFormat(lv)

\* the rows of a level fit between top and bottom of the gameplay area with
\* bricks as tall as configured, the gap between rows not negative
RowsFit(lv) ==
    /\ lv.BrickSpacingY >= 0
    /\ lv.BrickHeight >= 0
    /\ MaxOf(BrickYs(lv)) * (lv.BrickHeight + lv.BrickSpacingY) + lv.BrickHeight
           <= GameAreaHeight

\* a level file whose field is wider than the gameplay area and has no
\* defect of name, bricks, hits or grid
Overflowing(lv) == ~Defective(lv) /\ FieldWidth(lv) > 1400

\* C26: a grid-format level whose configured field is wider than the
\* gameplay area, its gaps alone narrower than the area, is auto-fitted: its
\* brick width after the load is (area width - gaps) / columns rounded down,
\* strictly smaller than configured, the fitted field is not wider than the
\* area, and with rows that fit the level is accepted.  A level whose gaps
\* alone are as wide as the area, or one in pixel format, is not fitted and
\* is rejected.
OverflowAutoFitted ==
    (last.op = "Load" /\ last.file.kind = "level" /\ Overflowing(FileLevel)) =>
        IF GridFormat(FileLevel) /\ FieldGaps(FileLevel) < 1400
        THEN /\ RowsFit(FileLevel) => last.load = "ok"
             /\ last.load = "ok" =>
                    /\ level.BrickWidth
                         = (1400 - FieldGaps(FileLevel)) \div FieldColumns(FileLevel)
                    /\ level.BrickWidth < FileLevel.BrickWidth
                    /\ FieldWidth(level) <= 1400
                    /\ level.BrickHeight <= FileLevel.BrickHeight
        ELSE last.load = "validate"

\* C26 as stated: every level whose configured field is wider than the
\* gameplay area is accepted, with a brick width smaller than configured.
OverflowAlwaysAccepted ==
    (last.op = "Load" /\ last.file.kind = "level" /\ Overflowing(FileLevel)) =>
        /\ last.load = "ok"
        /\ level.BrickWidth < FileLevel.BrickWidth

\* twelve columns of 150 px bricks loaded with bricks of 116 px
TwelveColumnsFitted ==
    /\ last.op = "Load"
    /\ last.load = "ok"
    /\ FileLevel.BrickWidth = 150
    /\ FileLevel.BrickSpacingX = 0
    /\ FieldColumns(FileLevel) = 12
    /\ level.BrickWidth = 116
    /\ bricks[1].width = 116

\* C27: CreateDefaultLevel returns one fixed level with a name, exactly four
\* bricks in one row with one hit each; ValidateLevel accepts it, and its
\* bricks lie within the gameplay area.
DefaultLevelValid ==
    last.op = "Default" =>
        /\ level.Name # ""
        /\ Len(level.Bricks) = 4
        /\ \A i \in 1..4 : level.Bricks[i].Hits = 1 /\ level.Bricks[i].Y = level.Bricks[1].Y
        /\ \A i \in 1..4, j \in 1..4 : i # j => level.Bricks[i].X # level.Bricks[j].X
        /\ last.load = "ok"
        /\ Len(bricks) = 4
        /\ \A i \in 1..4 :
               /\ bricks[i].active
               /\ bricks[i].hits = 1
               /\ WithinGameArea(BrickBounds(bricks[i]))

\* the default level installed, its four bricks of 150 px with gaps of 25 px
\* centred in the gameplay area
DefaultLevelInstalled ==
    /\ last.op = "Default"
    /\ level.Name = "Default Level"
    /\ 2 * BrickBounds(bricks[1])[1] = (2 * 20 + 1400 - 675) * PX
    /\ 2 * BrickBounds(bricks[4])[3] = (2 * 20 + 1400 + 675) * PX

\* ----------------------------------------------------------------------
\* Lives, bricks and score between frames
\* ----------------------------------------------------------------------

\* C28: lives stays within 0..3, no Update raises it, and it is at least 1
\* in every phase but GameOver.
LivesWithinBounds ==
    /\ [](lives \in 0..3)
    /\ [][ lives' <= lives ]_vars
    /\ [](phase # "GameOver" => lives >= 1)

\* C29: between frames, in LevelComplete no brick is active, and in Start,
\* Playing, Paused and WaitingToContinue at least one brick is.
BricksMatchPhase ==
    /\ phase = "LevelComplete" =>
           \A i \in 1..Len(bricks) : ~bricks[i].active
    /\ phase \in { "Start", "Playing", "Paused", "WaitingToContinue" } =>
           \E i \in 1..Len(bricks) : bricks[i].active

\* a ball lost with one of two bricks destroyed and the other still active
WaitingWithOneBrickLeft ==
    /\ phase = "WaitingToContinue"
    /\ Len(bricks) = 2
    /\ ActiveBricks(bricks) = 1

FrameInOrder(k) ==
    PlayedOutcome(
        CheckLevelComplete(
            CheckBallLost(
                CheckWallCollisions(
                    CheckBrickCollisions(
                        CheckPaddleCollision(
                            [World EXCEPT !.paddle = PaddleUpdate(paddle, k),
                                          !.ball = BallUpdate(ball)]))))))

\* C31: a Playing frame without the pause keys is, in this order, the paddle
\* update, the ball update, the paddle collision, the brick collision, the
\* wall collision, the lost-ball check and the bricks-cleared check, each
\* working on the ball, score, lives and phase the one before it left.
FrameStepsInOrder ==
    [][ (phase = "Playing" /\ ~keys'.pause) => GameFields' = FrameInOrder(keys') ]_vars

\* one frame in which the brick step hit a brick and the lost-ball check,
\* coming after it, took a life from the same ball
HitThenLostInOneFrame ==
    /\ last.phase = "Playing"
    /\ last.hit > 0
    /\ last.lost
    /\ score > 0

\* ----------------------------------------------------------------------
\* A level that cannot be loaded
\* ----------------------------------------------------------------------

\* C32: when the load of level currentLevel+1 fails in a LevelComplete frame,
\* score, lives, currentLevel, level, bricks, ball and paddle are as before
\* the frame and only the phase changes, to GameOver; the score floor of the
\* level that failed is not applied.
FailedLoadChangesPhaseOnly ==
    [][ (phase = "LevelComplete" /\ last'.load \notin {"none", "ok"}) =>
            /\ phase' = "GameOver"
            /\ UNCHANGED << score, lives, currentLevel, level, bricks, ball, paddle >> ]_vars

\* game over after a failed load, the score still below the baseline of the
\* level that failed
OverBelowNextBaseline ==
    /\ phase = "GameOver"
    /\ last.phase = "LevelComplete"
    /\ last.load \notin {"none", "ok"}
    /\ score < (currentLevel + 1) * LevelBaseline
    /\ score > currentLevel * LevelBaseline

\* ----------------------------------------------------------------------
\* The side of a brick the ball bounces off
\* ----------------------------------------------------------------------

\* the distances from the ball centre to the left, right, top and bottom
\* edge of a box <<left, top, right, bottom>>
EdgeDistances(b, box) ==
    << b.x - box[1], box[3] - b.x, b.y - box[2], box[4] - b.y >>

\* the smallest of four distances d
Nearest(d) == Min2(Min2(Min2(d[1], d[2]), d[3]), d[4])

\* a left or right edge is among the nearest
SideIsNearest(d) == d[1] = Nearest(d) \/ d[2] = Nearest(d)

\* the ball before and after a hit on a brick with the box: one axis of the
\* velocity negated, chosen by the nearest edge, nothing else changed
TurnedOffBox(before, after, box) ==
    /\ after.x = before.x
    /\ after.y = before.y
    /\ after.speed = before.speed
    /\ IF SideIsNearest(EdgeDistances(before, box))
       THEN after.vx = -before.vx /\ after.vy = before.vy
       ELSE after.vy = -before.vy /\ after.vx = before.vx

\* C33: a brick hit negates exactly one axis of the ball velocity and leaves
\* the other: X when the left or right edge of the brick is the nearest of
\* the four to the ball centre, Y when the top or bottom edge is; when a
\* left/right edge ties with a top/bottom edge for the minimum, X.
BrickHitTurnsOneAxis ==
    [][ (last'.op = "Bricks" /\ last'.hit > 0) =>
            TurnedOffBox(ball, ball', BrickBounds(bricks[last'.hit])) ]_vars

\* a hit with the ball centre as near to the left edge of the brick as to
\* its top edge, and moving sideways: it went off to the other side
TurnedSidewaysOnTie ==
    /\ last.op = "Bricks"
    /\ last.hit > 0
    /\ EdgeDistances(ball, BrickBounds(bricks[last.hit]))[1]
           = EdgeDistances(ball, BrickBounds(bricks[last.hit]))[3]
    /\ EdgeDistances(ball, BrickBounds(bricks[last.hit]))[1]
           = Nearest(EdgeDistances(ball, BrickBounds(bricks[last.hit])))
    /\ ball.vx < 0
    /\ ball.vy > 0

\* ----------------------------------------------------------------------
\* The paddle's velocity
\* ----------------------------------------------------------------------

\* the velocity after steps 1 to 3 of Paddle.Update: input or friction, then
\* the clamp to the terminal velocity
SpeedAfter(p, k) ==
    Max2(-(PaddleMaxSpeed * VU),
         Min2(PaddleMaxSpeed * VU,
              p.vx + (IF InputAccel(k) = 0 THEN FrictionAccel(p.vx) ELSE InputAccel(k))))

\* step 4 of Paddle.Update took the centre beyond one of the two stops
BeyondStops(p, k) ==
    \/ p.x + SpeedAfter(p, k) < PaddleMinX
    \/ p.x + SpeedAfter(p, k) > PaddleMaxX

\* C34: after every Paddle.Update the velocity is at most PaddleMaxSpeed
\* either way, and when the Update clamped the position to the left or the
\* right stop the velocity is exactly 0.
SpeedLimitedAndStopped ==
    [][ last'.op = "Update" =>
            /\ Abs(paddle'.vx) <= PaddleMaxSpeed * VU
            /\ BeyondStops(paddle, keys') =>
                   /\ paddle'.vx = 0
                   /\ paddle'.x \in { PaddleMinX, PaddleMaxX } ]_vars

\* a paddle at the terminal velocity with the right key down has run into
\* the right stop
StoppedAtRightFromFullSpeed ==
    /\ last.op = "Update"
    /\ keys.right
    /\ last.from.vx = PaddleMaxSpeed * VU
    /\ last.from.x < PaddleMaxX
    /\ paddle.x = PaddleMaxX
    /\ paddle.vx = 0

\* C36: with a left and a right key down in the same tick Paddle.Update
\* applies no input acceleration, so that the tick is the one of a paddle
\* with no key down: only friction acts.
BothKeysCancel ==
    [][ (last'.op = "Update" /\ keys'.left /\ keys'.right) =>
            paddle' = PaddleUpdate(paddle, NoKeys) ]_vars

\* ----------------------------------------------------------------------
\* float64
\* ----------------------------------------------------------------------

\* The paddle's x and vx are float64.  Where the rounding of an operation
\* decides a claim the numbers are modelled bit for bit: a float64 is
\* [neg, m, e], standing for (-1)^neg * m * 2^e, with m = 0 or
\* 2^52 <= m < 2^53 (round to nearest, ties to even; every number here is
\* far from overflow and from the subnormal range).  m is a natural number
\* written as a sequence of digits to the base 2^14, least significant first.
Limb == 2^14

RECURSIVE BigTrim(_)
BigTrim(a) ==
    IF a = << >> THEN a
    ELSE IF a[Len(a)] = 0 THEN BigTrim(SubSeq(a, 1, Len(a) - 1)) ELSE a

RECURSIVE BigOf(_)
BigOf(n) == IF n = 0 THEN << >> ELSE << n % Limb >> \o BigOf(n \div Limb)

Digit(a, i) == IF i <= Len(a) THEN a[i] ELSE 0

RECURSIVE BigAddFrom(_, _, _, _)
BigAddFrom(a, b, i, c) ==
    IF i > Len(a) /\ i > Len(b) THEN (IF c = 0 THEN << >> ELSE << c >>)
    ELSE << (Digit(a, i) + Digit(b, i) + c) % Limb >>
             \o BigAddFrom(a, b, i + 1, (Digit(a, i) + Digit(b, i) + c) \div Limb)

BigAdd(a, b) == BigAddFrom(a, b, 1, 0)

RECURSIVE BigSubFrom(_, _, _, _)
BigSubFrom(a, b, i, c) ==
    IF i > Len(a) THEN << >>
    ELSE << (Digit(a, i) - Digit(b, i) - c) % Limb >>
             \o BigSubFrom(a, b, i + 1,
                           IF Digit(a, i) - Digit(b, i) - c < 0 THEN 1 ELSE 0)

\* a - b for a >= b
BigSub(a, b) == BigTrim(BigSubFrom(a, b, 1, 0))

RECURSIVE BigCmpAt(_, _, _)
BigCmpAt(a, b, i) ==
    IF i = 0 THEN 0
    ELSE IF a[i] > b[i] THEN 1
    ELSE IF a[i] < b[i] THEN -1
    ELSE BigCmpAt(a, b, i - 1)

\* 1, 0 or -1 as a is above, equal to or below b
BigCmp(a, b) ==
    IF Len(a) > Len(b) THEN 1
    ELSE IF Len(a) < Len(b) THEN -1
    ELSE BigCmpAt(a, b, Len(a))

RECURSIVE BigMulDigit(_, _, _, _)
BigMulDigit(a, k, i, c) ==
    IF i > Len(a) THEN (IF c = 0 THEN << >> ELSE << c >>)
    ELSE << (a[i] * k + c) % Limb >>
             \o BigMulDigit(a, k, i + 1, (a[i] * k + c) \div Limb)

RECURSIVE BigMulFrom(_, _, _)
BigMulFrom(a, b, i) ==
    IF i > Len(a) THEN << >>
    ELSE BigAdd(BigMulDigit(b, a[i], 1, 0), << 0 >> \o BigMulFrom(a, b, i + 1))

BigMul(a, b) == BigTrim(BigMulFrom(a, b, 1))

\* a * 2^s
BigShl(a, s) ==
    IF a = << >> THEN a
    ELSE [ i \in 1..(s \div 14) |-> 0 ] \o BigMulDigit(a, 2^(s % 14), 1, 0)

\* a \div 2^s
BigShr(a, s) ==
    BigTrim([ i \in 1..(Len(a) - s \div 14) |->
                (a[i + s \div 14] \div 2^(s % 14))
                  + (Digit(a, i + s \div 14 + 1) % 2^(s % 14)) * 2^(14 - (s % 14)) ])

RECURSIVE DigitBits(_)
DigitBits(n) == IF n = 0 THEN 0 ELSE 1 + DigitBits(n \div 2)

\* the number of binary digits of a
BigBits(a) == IF a = << >> THEN 0 ELSE 14 * (Len(a) - 1) + DigitBits(a[Len(a)])

Zero64 == [neg |-> FALSE, m |-> << >>, e |-> 0]

\* whether n / 2^s rounds up: above the half, or on it with an odd quotient
RoundsUp(n, s) ==
    \/ BigCmp(BigSub(n, BigShl(BigShr(n, s), s)), BigShl(<< 1 >>, s - 1)) = 1
    \/ /\ BigCmp(BigSub(n, BigShl(BigShr(n, s), s)), BigShl(<< 1 >>, s - 1)) = 0
       /\ BigShr(n, s)[1] % 2 = 1

\* n / 2^s to the nearest integer, ties to even
Rounded(n, s) ==
    IF RoundsUp(n, s) THEN BigAdd(BigShr(n, s), << 1 >>) ELSE BigShr(n, s)

\* m * 2^e for m <= 2^53
Normal64(neg, m, e) ==
    IF BigBits(m) > 53 THEN [neg |-> neg, m |-> BigShr(m, 1), e |-> e + 1]
    ELSE [neg |-> neg, m |-> m, e |-> e]

\* the float64 nearest to (-1)^neg * n * 2^e
Round64(neg, n, e) ==
    IF n = << >> THEN Zero64
    ELSE IF BigBits(n) <= 53
    THEN [neg |-> neg, m |-> BigShl(n, 53 - BigBits(n)), e |-> e - (53 - BigBits(n))]
    ELSE Normal64(neg, Rounded(n, BigBits(n) - 53), e + BigBits(n) - 53)

Int64(n) == Round64(n < 0, BigOf(Abs(n)), 0)

Neg64(a) == IF a.m = << >> THEN a ELSE [a EXCEPT !.neg = ~a.neg]

\* the sum of (-1)^aneg * am * 2^e and (-1)^bneg * bm * 2^e
AddAligned(aneg, am, bneg, bm, e) ==
    IF aneg = bneg THEN Round64(aneg, BigAdd(am, bm), e)
    ELSE IF BigCmp(am, bm) >= 0 THEN Round64(aneg, BigSub(am, bm), e)
    ELSE Round64(bneg, BigSub(bm, am), e)

\* a + b
Add64(a, b) ==
    IF a.m = << >> THEN b
    ELSE IF b.m = << >> THEN a
    ELSE AddAligned(a.neg, BigShl(a.m, a.e - Min2(a.e, b.e)),
                    b.neg, BigShl(b.m, b.e - Min2(a.e, b.e)), Min2(a.e, b.e))

\* a < b
Less64(a, b) == Add64(a, Neg64(b)).neg

\* a * b
Mul64(a, b) == Round64(a.neg # b.neg, BigMul(a.m, b.m), a.e + b.e)

\* the next n binary digits, most significant first, of the quotient of r by
\* d for r < d, and the remainder they leave
RECURSIVE DivBlock(_, _, _)
DivBlock(r, d, n) ==
    IF n = 0 THEN [bits |-> << >>, r |-> r]
    ELSE IF BigCmp(BigShl(r, 1), d) >= 0
    THEN [DivBlock(BigSub(BigShl(r, 1), d), d, n - 1) EXCEPT !.bits = << 1 >> \o @]
    ELSE [DivBlock(BigShl(r, 1), d, n - 1) EXCEPT !.bits = << 0 >> \o @]

\* the digits of n more blocks of 8 after the block b, and a last digit that
\* tells whether a remainder is left
RECURSIVE DivBits(_, _, _)
DivBits(b, d, n) ==
    IF n = 0 THEN b.bits \o << IF b.r = << >> THEN 0 ELSE 1 >>
    ELSE b.bits \o DivBits(DivBlock(b.r, d, 8), d, n - 1)

\* digit i of the number with the binary digits bits, most significant first
RECURSIVE PackDigit(_, _, _)
PackDigit(bits, i, j) ==
    IF j = 14 \/ 14 * (i - 1) + j >= Len(bits) THEN 0
    ELSE bits[Len(bits) - (14 * (i - 1) + j)] * 2^j + PackDigit(bits, i, j + 1)

BigOfBits(bits) ==
    BigTrim([ i \in 1..((Len(bits) + 13) \div 14) |-> PackDigit(bits, i, 0) ])

\* a / b for b # 0: 57 digits of the quotient of the two m and the digit for
\* the remainder
Div64(a, b) ==
    IF a.m = << >> THEN Zero64
    ELSE Round64(a.neg # b.neg,
                 BigOfBits(IF BigCmp(a.m, b.m) >= 0
                           THEN DivBits([bits |-> << 1 >>, r |-> BigSub(a.m, b.m)], b.m, 7)
                           ELSE DivBits([bits |-> << 0 >>, r |-> a.m], b.m, 7)),
                 a.e - b.e - 57)

\* ----------------------------------------------------------------------
\* Paddle.Update in float64
\* ----------------------------------------------------------------------

\* Tick = 1.0 / 60.0, and the other constants of paddle.go as float64
Tick64 == Div64(Int64(1), Int64(60))

NewPaddle64 == [x |-> Int64(ScreenWidth \div 2), vx |-> Zero64]

\* step 1 of Paddle.Update: the second if overwrites the first
InputAccel64(k) ==
    IF k.right THEN Int64(PaddleAccel)
    ELSE IF k.left THEN Int64(-PaddleAccel)
    ELSE Zero64

\* a friction of half the strength
FrictionAccel64Weak(vx) ==
    IF Less64(Zero64, vx) THEN
        IF Less64(Add64(vx, Mul64(Int64(-(PaddleFriction \div 2)), Tick64)), Zero64)
        THEN Div64(Neg64(vx), Tick64)
        ELSE Int64(-(PaddleFriction \div 2))
    ELSE IF Less64(vx, Zero64) THEN
        IF Less64(Zero64, Add64(vx, Mul64(Int64(PaddleFriction \div 2), Tick64)))
        THEN Div64(Neg64(vx), Tick64)
        ELSE Int64(PaddleFriction \div 2)
    ELSE Zero64

\* step 2 of Paddle.Update: friction against the velocity, ax = -p.vx / Tick
\* when p.vx + ax*Tick would go through zero
FrictionAccel64(vx) ==
    IF Less64(Zero64, vx) THEN
        IF Less64(Add64(vx, Mul64(Int64(-PaddleFriction), Tick64)), Zero64)
        THEN Div64(Neg64(vx), Tick64)
        ELSE Int64(-PaddleFriction)
    ELSE IF Less64(vx, Zero64) THEN
        IF Less64(Zero64, Add64(vx, Mul64(Int64(PaddleFriction), Tick64)))
        THEN Div64(Neg64(vx), Tick64)
        ELSE Int64(PaddleFriction)
    ELSE Zero64

Accel64(p, k) ==
    IF InputAccel64(k) = Zero64 THEN FrictionAccel64(p.vx) ELSE InputAccel64(k)

\* step 3: the clamp to the terminal velocity
ClampSpeed64(v) ==
    IF Less64(Int64(PaddleMaxSpeed), v) THEN Int64(PaddleMaxSpeed)
    ELSE IF Less64(v, Int64(-PaddleMaxSpeed)) THEN Int64(-PaddleMaxSpeed)
    ELSE v

\* p.vx += ax * Tick, clamped
Speed64(p, k) == ClampSpeed64(Add64(p.vx, Mul64(Accel64(p, k), Tick64)))

\* step 5: the stops at the screen edges
StopAtEdges64(x, v) ==
    IF Less64(x, Int64(PaddleWidth \div 2))
    THEN [x |-> Int64(PaddleWidth \div 2), vx |-> Zero64]
    ELSE IF Less64(Int64(ScreenWidth - PaddleWidth \div 2), x)
    THEN [x |-> Int64(ScreenWidth - PaddleWidth \div 2), vx |-> Zero64]
    ELSE [x |-> x, vx |-> v]

\* step 4, p.x += p.vx * Tick, and step 5
Moved64(p, v) == StopAtEdges64(Add64(p.x, Mul64(v, Tick64)), v)

PaddleUpdate64(p, k) == Moved64(p, Speed64(p, k))

\* ----------------------------------------------------------------------
\* A paddle left alone after a run of keys
\* ----------------------------------------------------------------------

\* the longest time in ticks one key is held in a run
MaxHold == 3

\* the ticks a key is held from rest until the terminal velocity is reached
FullSpeedTicks == (PaddleMaxSpeed * 60) \div PaddleAccel + 1

\* the paddle after n Updates with the keys k down
RECURSIVE Held(_, _, _)
Held(p, k, n) == IF n = 0 THEN p ELSE Held(PaddleUpdate64(p, k), k, n - 1)

\* the paddle of a new game after a run of keys: left for a ticks, right for
\* b, none for c, right again for d
KeyRun(a, b, c, d) ==
    Held(Held(Held(Held(NewPaddle64, Keys(TRUE, FALSE, FALSE, FALSE), a),
                   Keys(FALSE, TRUE, FALSE, FALSE), b),
              NoKeys, c),
         Keys(FALSE, TRUE, FALSE, FALSE), d)

\* a game in play whose paddle has been through a run of keys, or has been
\* taken to the terminal velocity either way
InitCoast ==
    \/ \E a \in 0..MaxHold, b \in 0..MaxHold, c \in 0..MaxHold, d \in 0..MaxHold :
           Scene(SoloLevel, KeyRun(a, b, c, d),
                 BallAt(<< 700, 500 >>, << 240, -240 >>), SoloBricks(1), StartLives)
    \/ \E k \in { Keys(TRUE, FALSE, FALSE, FALSE), Keys(FALSE, TRUE, FALSE, FALSE) } :
           Scene(SoloLevel, Held(NewPaddle64, k, FullSpeedTicks),
                 BallAt(<< 700, 500 >>, << 240, -240 >>), SoloBricks(1), StartLives)

\* g.paddle.Update() with no key down; moves counts the ticks that began
\* with the paddle in motion
StepCoast ==
    /\ keys' = NoKeys
    /\ paddle' = PaddleUpdate64(paddle, NoKeys)
    /\ moves' = IF paddle.vx = Zero64 THEN moves ELSE moves + 1
    /\ last' = PaddleStepped(paddle)
    /\ UNCHANGED << phase, score, lives, currentLevel, ball, bricks, level >>

NextCoast == StepCoast

SpecCoast == InitCoast /\ [][NextCoast]_vars

Abs64(a) == [a EXCEPT !.neg = FALSE]

\* the test of Paddle.Update for friction taking the velocity through zero
CrossesZero64(vx) ==
    \/ /\ Less64(Zero64, vx)
       /\ Less64(Add64(vx, Mul64(Int64(-PaddleFriction), Tick64)), Zero64)
    \/ /\ Less64(vx, Zero64)
       /\ Less64(Zero64, Add64(vx, Mul64(Int64(PaddleFriction), Tick64)))

\* C35: with no movement key down one Paddle.Update never flips the sign of
\* the velocity and never makes it larger, and when friction over the tick
\* would take the velocity through zero the velocity becomes exactly 0.
FrictionStopsAtZero ==
    [][ last'.op = "Update" =>
            /\ ~(Less64(Zero64, paddle.vx) /\ Less64(paddle'.vx, Zero64))
            /\ ~(Less64(paddle.vx, Zero64) /\ Less64(Zero64, paddle'.vx))
            /\ ~Less64(Abs64(paddle.vx), Abs64(paddle'.vx))
            /\ CrossesZero64(paddle.vx) => paddle'.vx = Zero64 ]_vars

\* the ticks friction needs to stop a paddle at the terminal velocity
StopTicks == (PaddleMaxSpeed * 60 + PaddleFriction - 1) \div PaddleFriction

\* C37: a paddle left alone comes to rest: its velocity is exactly 0 after
\* at most 12 ticks at the configured terminal velocity, friction and tick
\* (no 13th tick begins with the paddle in motion), and from then on the
\* velocity stays 0 and the position the same.
PaddleComesToRest ==
    /\ [](moves <= StopTicks)
    /\ [](moves = StopTicks => paddle.vx = Zero64)
    /\ [][ paddle.vx = Zero64 => paddle' = paddle /\ moves' = moves ]_vars

\* a paddle released at the terminal velocity, at rest after the twelfth tick
AtRestAfterTwelveTicks ==
    /\ last.op = "Update"
    /\ moves = StopTicks
    /\ last.from.vx # Zero64
    /\ paddle.vx = Zero64

\* ----------------------------------------------------------------------
\* What auto-fit changes, and the brick sizes of loaded levels
\* ----------------------------------------------------------------------

\* what AutoFitLevel did to the level lv, given the level fit it left: the
\* two brick sizes are the only fields changed, neither is larger, and the
\* width is the largest with which the field is not wider than the area
ShrunkToFit(lv, fit) ==
    /\ fit = [lv EXCEPT !.BrickWidth = fit.BrickWidth, !.BrickHeight = fit.BrickHeight]
    /\ fit.BrickWidth <= lv.BrickWidth
    /\ fit.BrickHeight <= lv.BrickHeight
    /\ FieldWidth(fit) <= GameAreaWidth
    /\ FieldColumns(lv) * (fit.BrickWidth + 1) + FieldGaps(lv) > GameAreaWidth

AcceptedBricksHaveSize ==
    (last.op = "Load" /\ last.load = "ok" /\ GridFormat(FileLevel)) =>
        /\ level.BrickWidth >= 1
        /\ level.BrickHeight >= 1

\* ----------------------------------------------------------------------
\* The pause key held down
\* ----------------------------------------------------------------------

\* C39: with a pause key (Space or Enter) down on every tick from a Playing
\* state the phase alternates Paused, Playing, Paused, ...: each such tick
\* takes Playing to Paused and Paused to Playing, and changes nothing of
\* paddle, ball, bricks, score and lives; so the phase after the hold is
\* Paused for an odd number of ticks and Playing for an even one.
PauseHeldAlternates ==
    [][ (keys'.pause /\ phase \in { "Playing", "Paused" }) =>
            /\ phase = "Playing" => phase' = "Paused"
            /\ phase = "Paused" => phase' = "Playing"
            /\ UNCHANGED << paddle, ball, bricks, score, lives >> ]_vars

\* back in play after a tick with the pause key down on the pause screen,
\* the ball not at its serve position: the second tick of a hold
ResumedByHeldPauseKey ==
    /\ phase = "Playing"
    /\ last.phase = "Paused"
    /\ keys.pause
    /\ ~keys.left
    /\ ball # NewBallAbovePaddle(paddle.x, level.BallSpeed)

=============================================================================
